---- MODULE Spec2Model ----
(***************************************************************************)
(* Model of the bar-by-bar backtester (src/V1/backtest).                   *)
(*                                                                         *)
(* Numbers.  The program computes in binary floating point.  The model     *)
(* computes in exact integers on a grid: prices are whole multiples of the *)
(* instrument point (point = 1), lots are whole multiples of the lot step  *)
(* (lot_step = 1), money is a whole number, the Hurst value and the        *)
(* volatility percentile are held in hundredths (0.55 is 55).  Fractions   *)
(* of the configuration are pairs numerator / denominator.  Every          *)
(* comparison of the code is kept, cross-multiplied where the code         *)
(* divides.                                                                *)
(*                                                                         *)
(* Estimators.  The run reads the three estimators only through their      *)
(* accessors (level, slope, estimation error, Hurst value, sample count,   *)
(* percentile).  The floating-point recurrences that produce these values  *)
(* are not reproduced in the run: an update sets each read-out to any      *)
(* value of a finite grid that the update can produce.  What the code      *)
(* fixes exactly (the first Kalman update, the Kalman update without       *)
(* innovation, the sample counters, the skip on non-positive prices, the   *)
(* readiness threshold) is kept.                                           *)
(***************************************************************************)
EXTENDS Integers, Sequences, FiniteSets

VARIABLES
    pc,                 \* position in Backtester.run
    n_bars,             \* len(closes)
    warmup_bars,        \* backtester.py:70-71
    max_positions,      \* EAConfig.max_positions of this run
    i,                  \* bar index of the loop in progress
    bar_close,          \* closes[i] of the last bar fed (prev_close of the next)
    bar_high,           \* highs[i]
    bar_low,            \* lows[i]
    today,              \* calendar date of dates[i]
    last_day,           \* backtester.py:60
    kf_initialized,     \* KalmanFilter._initialized
    kf_level,           \* KalmanFilter._state[0]
    kf_slope,           \* KalmanFilter._state[1]
    kf_err,             \* sqrt(|KalmanFilter._P[0][0]|)
    hurst_count,        \* HurstExponent._count
    hurst,              \* HurstExponent._hurst, in hundredths
    vol_ret_count,      \* VolatilityRegime._ret_count
    vol_percentile,     \* VolatilityRegime._percentile, in hundredths
    kf_P,               \* KalmanFilter._P, the 2x2 covariance
    kf_Q,               \* KalmanFilter._Q
    kf_R,               \* KalmanFilter._R
    hurst_returns,      \* HurstExponent._returns, the ring buffer
    hurst_head,         \* HurstExponent._head
    vol_returns,        \* VolatilityRegime._returns
    vol_ret_head,       \* VolatilityRegime._ret_head
    vol_history,        \* VolatilityRegime._vol_history
    vol_head,           \* VolatilityRegime._vol_head
    vol_count,          \* VolatilityRegime._vol_count
    vol_current,        \* VolatilityRegime._current_vol, as a variance
    day_start_equity,   \* RiskManager._day_start_equity
    equity,             \* backtester.py:53
    realized_pnl,       \* backtester.py:54
    positions,          \* backtester.py:55
    closed_trades,      \* backtester.py:56
    next_ticket,        \* backtester.py:57
    bars_since_close,   \* backtester.py:59
    entry_this_bar,     \* backtester.py:80
    entry_signal,       \* backtester.py:178
    result,             \* BacktestResult: one record per trading bar
    called_before,      \* run has already returned once on this Backtester
    call,               \* the last call of a method: its name, arguments, value
    n_feeds,            \* calls of SignalEngine.on_new_bar made so far
    data,               \* the bars read so far, when the run is being compared
    earlier             \* an earlier run on a shorter series, to compare with

vars == <<pc, n_bars, warmup_bars, max_positions, i, bar_close, bar_high, bar_low,
          today, last_day, kf_initialized, kf_level, kf_slope, kf_err,
          hurst_count, hurst, vol_ret_count, vol_percentile, day_start_equity,
          equity, realized_pnl, positions, closed_trades, next_ticket,
          bars_since_close, entry_this_bar, entry_signal, result,
          called_before, call, n_feeds, data, earlier,
          kf_P, kf_Q, kf_R, hurst_returns, hurst_head, vol_returns,
          vol_ret_head, vol_history, vol_head, vol_count, vol_current>>

\* What the estimators hold and the accessors do not show
internal_vars == <<kf_P, kf_Q, kf_R, hurst_returns, hurst_head, vol_returns,
                   vol_ret_head, vol_history, vol_head, vol_count, vol_current>>

engine_vars == <<kf_initialized, kf_level, kf_slope, kf_err,
                 hurst_count, hurst, vol_ret_count, vol_percentile,
                 internal_vars>>

book_vars == <<equity, realized_pnl, positions, closed_trades, next_ticket,
               bars_since_close, entry_this_bar, entry_signal, result,
               day_start_equity, last_day, today>>

caller_vars == <<called_before, call, n_feeds, data, earlier>>

-----------------------------------------------------------------------------
(* Bounds of the model *)

MaxTradeBars == 4       \* trading bars after the warmup
MaxPositionsCfg == 2    \* max_positions ranges over 0..MaxPositionsCfg
MaxDay == 1             \* calendar dates are 0..MaxDay

(* EAConfig of the model run (config.py:25-56) *)
kf_process_noise == 1
kf_observ_noise == 100
kf_conf_band == 2
hurst_period == 20
hurst_threshold == 55
hurst_exit_threshold == 40
vol_period == 2
vol_hist_period == 20
risk_per_trade_num == 1
risk_per_trade_den == 100
max_daily_dd_num == 3
max_daily_dd_den == 100
max_spread_points == 30
trail_multiplier == 3
min_hold_bars == 2
slippage_points == 1
close_cooldown == 2
initial_equity == 10000
leverage == 100

(* InstrumentConfig of the model run (config.py:59-69) *)
point == 1
point_value == 7
min_lot == 1
max_lot == 2
lot_step == 1
spread_points == 2
contract_size == 100

(* Constants of the code *)
WarmupExtra == 50           \* backtester.py:70
InitialBarsSinceClose == 100 \* backtester.py:59
HurstMinSamples == 20       \* hurst_exponent.py:37, 148
InitialHurst == 50          \* hurst_exponent.py:22 (0.5)
InitialPercentile == 50     \* volatility_regime.py:36 (0.5)
LowPercentile == 25         \* volatility_regime.py:93
HighPercentile == 75        \* volatility_regime.py:95
NoDay == 0 - 1              \* last_day = None

(* Input grids *)
Closes == {99, 101}
BarRanges == {0, 5}             \* high = close + r, low = close - r
LevelOffsets == {0 - 3, 3}      \* Kalman level minus the close
Slopes == {0 - 1, 1}
Errs == {1}
Hursts == {30, 60}
Percentiles == {50}

-----------------------------------------------------------------------------
(* Small helpers *)

Abs(x) == IF x < 0 THEN 0 - x ELSE x
Max(a, b) == IF a >= b THEN a ELSE b
Min(a, b) == IF a <= b THEN a ELSE b
Last(s) == s[Len(s)]
Front(s) == SubSeq(s, 1, Len(s) - 1)

\* backtester.py:63-64
half_spread == (spread_points * point) \div 2
slippage == slippage_points * point

-----------------------------------------------------------------------------
(* SignalEngine and the three estimators, as the run reads them *)

\* kalman_filter.py:99-100 (P00 of the first update is (price * 0.01)^2)
first_estimation_error(price) == (Abs(price) + 50) \div 100

\* Variant of kalman_update: the slope moved by an update without innovation
kalman_update_slope_drifts(price) ==
    IF ~kf_initialized
    THEN /\ kf_level' = price
         /\ kf_slope' = 0
         /\ kf_err' = first_estimation_error(price)
         /\ kf_initialized' = TRUE
    ELSE /\ kf_level' \in {price + o : o \in LevelOffsets}
         /\ kf_slope' \in Slopes
         /\ kf_err' \in Errs
         /\ UNCHANGED kf_initialized

\* kalman_filter.py:30-91.  With the innovation y = price - (level + slope)
\* at 0 the update adds K * 0 to the prediction: the level becomes level +
\* slope and the slope stays, whatever the gain; the covariance still moves.
kalman_update(price) ==
    IF ~kf_initialized
    THEN /\ kf_level' = price
         /\ kf_slope' = 0
         /\ kf_err' = first_estimation_error(price)
         /\ kf_initialized' = TRUE
    ELSE IF price - (kf_level + kf_slope) = 0
    THEN /\ kf_level' = kf_level + kf_slope
         /\ kf_slope' = kf_slope
         /\ kf_err' \in Errs
         /\ UNCHANGED kf_initialized
    ELSE /\ kf_level' \in {price + o : o \in LevelOffsets}
         /\ kf_slope' \in Slopes
         /\ kf_err' \in Errs
         /\ UNCHANGED kf_initialized

\* hurst_exponent.py:24-38
hurst_update(close, prev_close) ==
    IF prev_close <= 0 \/ close <= 0
    THEN UNCHANGED <<hurst_count, hurst>>
    ELSE /\ hurst_count' = IF hurst_count < hurst_period
                           THEN hurst_count + 1 ELSE hurst_count
         /\ IF hurst_count' >= HurstMinSamples
            THEN hurst' \in Hursts
            ELSE UNCHANGED hurst

\* volatility_regime.py:38-84
vol_update(close, prev_close) ==
    IF prev_close <= 0 \/ close <= 0
    THEN UNCHANGED <<vol_ret_count, vol_percentile>>
    ELSE /\ vol_ret_count' = IF vol_ret_count < vol_period
                             THEN vol_ret_count + 1 ELSE vol_ret_count
         /\ IF vol_ret_count' >= 2
            THEN vol_percentile' \in Percentiles \cup {vol_percentile}
            ELSE UNCHANGED vol_percentile

\* signal_engine.py:32-35, as the run reads the engine: the buffers and the
\* covariance are not reproduced
on_new_bar(close, prev_close) ==
    /\ kalman_update(close)
    /\ hurst_update(close, prev_close)
    /\ vol_update(close, prev_close)
    /\ UNCHANGED internal_vars

\* No earlier run to compare with; recording tells whether the bars read are
\* kept in data
NoEarlierRun(recording) ==
    [recording |-> recording, n_bars |-> 0, warmup_bars |-> 0, data |-> <<>>,
     result |-> <<>>, positions |-> <<>>, closed_trades |-> <<>>]

\* The run is not compared with another
NotCompared == NoEarlierRun(FALSE)

\* backtester.py:34-37, 74-76, 82-94: bar index of the data as the run has
\* read it: closes[index] and what the engine shows once fed with it, and on
\* a trading bar highs[index], lows[index] and the date of dates[index]
bar_read(index, trading) ==
    [index |-> index,
     close |-> bar_close',
     engine |-> <<kf_initialized', kf_level', kf_slope', kf_err', hurst_count',
                  hurst', vol_ret_count', vol_percentile'>>,
     trading |-> trading,
     high |-> IF trading THEN bar_high' ELSE 0,
     low |-> IF trading THEN bar_low' ELSE 0,
     day |-> IF trading THEN today' ELSE NoDay]

\* The bars read, kept from the last bar of the warmup on when the run is
\* being compared
bars_read(index, trading) ==
    IF earlier.recording /\ index >= warmup_bars - 1
    THEN Append(data, bar_read(index, trading))
    ELSE data

\* backtester.py:74, 76, 94: bar index of closes is fed to the engine
feed(index, close, prev_close) ==
    /\ on_new_bar(close, prev_close)
    /\ call' = [op |-> "on_new_bar",
                args |-> [index |-> index, close |-> close,
                          prev_close |-> prev_close],
                ret |-> <<>>]
    /\ n_feeds' = n_feeds + 1

\* hurst_exponent.py:147-148
is_ready == hurst_count >= HurstMinSamples

\* kalman_filter.py:102-106, signal_engine.py:76-80
upper_band(level, err, multiplier) == level + multiplier * err
lower_band(level, err, multiplier) == level - multiplier * err
get_upper_band == upper_band(kf_level, kf_err, kf_conf_band)
get_lower_band == lower_band(kf_level, kf_err, kf_conf_band)

\* Variant of get_entry_signal: a Hurst value at the threshold taken as trending
get_entry_signal_at_threshold(current_price) ==
    IF ~kf_initialized \/ ~is_ready THEN "NONE"
    ELSE IF kf_slope > 0 /\ hurst >= hurst_threshold /\ current_price > get_upper_band
         THEN "BUY"
    ELSE IF kf_slope < 0 /\ hurst >= hurst_threshold /\ current_price < get_lower_band
         THEN "SELL"
    ELSE "NONE"

\* signal_engine.py:37-54, with the two bands of the engine's conf_band given
entry_signal_between(current_price, upper, lower) ==
    IF ~kf_initialized \/ ~is_ready THEN "NONE"
    ELSE IF kf_slope > 0 /\ hurst > hurst_threshold /\ current_price > upper
         THEN "BUY"
    ELSE IF kf_slope < 0 /\ hurst > hurst_threshold /\ current_price < lower
         THEN "SELL"
    ELSE "NONE"

\* signal_engine.py:37-54
get_entry_signal(current_price) ==
    entry_signal_between(current_price, get_upper_band, get_lower_band)

\* signal_engine.py:56-59
should_close_buy ==
    IF ~kf_initialized THEN FALSE
    ELSE kf_slope < 0 /\ hurst < hurst_exit_threshold

\* signal_engine.py:61-64
should_close_sell ==
    IF ~kf_initialized THEN FALSE
    ELSE kf_slope > 0 /\ hurst < hurst_exit_threshold

\* volatility_regime.py:92-98
get_vol_regime ==
    IF vol_percentile < LowPercentile THEN "LOW"
    ELSE IF vol_percentile > HighPercentile THEN "HIGH"
    ELSE "NORMAL"

-----------------------------------------------------------------------------
(* RiskManager *)

\* risk_manager.py:26-28 (exact on the grid: contract_size = leverage)
calc_margin(lots, price) == (lots * contract_size * price) \div leverage

\* risk_manager.py:30-34
RECURSIVE get_used_margin(_)
get_used_margin(poss) ==
    IF poss = <<>> THEN 0
    ELSE get_used_margin(Front(poss))
         + calc_margin(Last(poss).lots, Last(poss).open_price)

\* risk_manager.py:36-37
get_free_margin(eq, poss) == eq - get_used_margin(poss)

\* risk_manager.py:59-63, in tenths
regime_factor10(regime) ==
    IF regime = "LOW" THEN 5 ELSE IF regime = "HIGH" THEN 7 ELSE 10

\* Variant of calc_lots_for: the size shrunk to the free margin returned
\* even when it is below min_lot
calc_lots_for_shrunk_below_min(inst, stop_points, regime, eq, poss, entry_price) ==
    IF stop_points <= 0 THEN 0
    ELSE IF inst.point_value <= 0 THEN 0
    ELSE LET num == eq * risk_per_trade_num * regime_factor10(regime)
             den == risk_per_trade_den * stop_points * inst.point_value * 10
             floored == (num \div (den * lot_step)) * lot_step
             clamped == Min(Max(floored, inst.min_lot), inst.max_lot)
             free == get_free_margin(eq, poss)
             required == calc_margin(clamped, entry_price)
             shrunk == ((free * leverage) \div (contract_size * entry_price * lot_step))
                       * lot_step
         IN  IF required > free
             THEN IF free <= 0 THEN 0 ELSE shrunk
             ELSE clamped

\* risk_manager.py:41-85, for an instrument inst with the fields point_value,
\* min_lot and max_lot (lot_step stays the step of the grid)
calc_lots_for(inst, stop_points, regime, eq, poss, entry_price) ==
    IF stop_points <= 0 THEN 0
    ELSE IF inst.point_value <= 0 THEN 0
    ELSE LET num == eq * risk_per_trade_num * regime_factor10(regime)
             den == risk_per_trade_den * stop_points * inst.point_value * 10
             floored == (num \div (den * lot_step)) * lot_step
             clamped == Min(Max(floored, inst.min_lot), inst.max_lot)
             free == get_free_margin(eq, poss)
             required == calc_margin(clamped, entry_price)
             shrunk == ((free * leverage) \div (contract_size * entry_price * lot_step))
                       * lot_step
         IN  IF required > free
             THEN IF free <= 0 THEN 0
                  ELSE IF shrunk < inst.min_lot THEN 0 ELSE shrunk
             ELSE clamped

\* config.py:59-69: the instrument of the run
inst_cfg == [point_value |-> point_value, min_lot |-> min_lot, max_lot |-> max_lot]

\* risk_manager.py:41-85, for the instrument of the run
calc_lots(stop_points, regime, eq, poss, entry_price) ==
    calc_lots_for(inst_cfg, stop_points, regime, eq, poss, entry_price)

\* Variant of daily_dd_exceeded: the limit read as a percentage, not a fraction
daily_dd_limit_as_percent(eq, dse) ==
    /\ dse > 0
    /\ eq - dse < 0
    /\ Abs(eq - dse) > max_daily_dd_num * dse

\* risk_manager.py:101-105
daily_dd_exceeded(eq, dse) ==
    /\ dse > 0
    /\ eq - dse < 0
    /\ Abs(eq - dse) * max_daily_dd_den > max_daily_dd_num * dse

\* Variant of can_open_trade: the new margin compared with the equity, the
\* margin in use left out
can_open_trade_on_equity(poss, eq, spread, new_lots, new_price) ==
    IF Len(poss) >= max_positions THEN FALSE
    ELSE IF daily_dd_exceeded(eq, day_start_equity) THEN FALSE
    ELSE IF spread > max_spread_points THEN FALSE
    ELSE IF eq < calc_margin(new_lots, new_price) THEN FALSE
    ELSE TRUE

\* Variant of can_open_trade: the position count compared with > for >=
can_open_trade_off_by_one(poss, eq, spread, new_lots, new_price) ==
    IF Len(poss) > max_positions THEN FALSE
    ELSE IF daily_dd_exceeded(eq, day_start_equity) THEN FALSE
    ELSE IF spread > max_spread_points THEN FALSE
    ELSE IF get_free_margin(eq, poss) < calc_margin(new_lots, new_price) THEN FALSE
    ELSE TRUE

\* risk_manager.py:89-117
can_open_trade(poss, eq, spread, new_lots, new_price) ==
    IF Len(poss) >= max_positions THEN FALSE
    ELSE IF daily_dd_exceeded(eq, day_start_equity) THEN FALSE
    ELSE IF spread > max_spread_points THEN FALSE
    ELSE IF get_free_margin(eq, poss) < calc_margin(new_lots, new_price) THEN FALSE
    ELSE TRUE

\* risk_manager.py:121-130
get_stop_loss(signal, kalman_level, est_error, multiplier) ==
    LET stop_dist == est_error * multiplier
    IN  IF signal = "BUY" THEN kalman_level - stop_dist
        ELSE IF signal = "SELL" THEN kalman_level + stop_dist
        ELSE 0

\* risk_manager.py:132-136
get_stop_points(entry_price, stop_loss, pt) == Abs(entry_price - stop_loss) \div pt

-----------------------------------------------------------------------------
(* Position, ClosedTrade (position.py) and the blocks of Backtester.run *)

\* position.py:8-16, backtester.py:208-216
Position(ticket, type, open_time, open_price, lots, stop_loss, entry_bar_index) ==
    [ticket |-> ticket, type |-> type, open_time |-> open_time,
     open_price |-> open_price, lots |-> lots, stop_loss |-> stop_loss,
     entry_bar_index |-> entry_bar_index]

\* backtester.py:106, 121, 145, 163, 267, 270
profit_at(pos, close_price) ==
    IF pos.type = "BUY"
    THEN (close_price - pos.open_price) * pos.lots * contract_size
    ELSE (pos.open_price - close_price) * pos.lots * contract_size

\* Variant of ClosedTrade: the two bar indexes passed in each other's place
ClosedTrade_indexes_swapped(pos, close_time, close_price, close_reason, exit_bar_index) ==
    [ticket |-> pos.ticket, type |-> pos.type,
     open_time |-> pos.open_time, close_time |-> close_time,
     open_price |-> pos.open_price, close_price |-> close_price,
     lots |-> pos.lots, profit |-> profit_at(pos, close_price),
     close_reason |-> close_reason,
     entry_bar_index |-> exit_bar_index,
     exit_bar_index |-> pos.entry_bar_index]

\* position.py:19-31, backtester.py:108-116
ClosedTrade(pos, close_time, close_price, close_reason, exit_bar_index) ==
    [ticket |-> pos.ticket, type |-> pos.type,
     open_time |-> pos.open_time, close_time |-> close_time,
     open_price |-> pos.open_price, close_price |-> close_price,
     lots |-> pos.lots, profit |-> profit_at(pos, close_price),
     close_reason |-> close_reason,
     entry_bar_index |-> pos.entry_bar_index,
     exit_bar_index |-> exit_bar_index]

\* backtester.py:141, 159, 181, 183
any_of_type(poss, type) == \E k \in 1..Len(poss) : poss[k].type = type

\* Variant of sl_hit: the bar tested against the stop as this bar's trailing
\* step would set it
sl_hit_on_trailed_stop(pos, high, low) ==
    LET trailed == IF (i - pos.entry_bar_index) < min_hold_bars
                   THEN pos.stop_loss
                   ELSE IF pos.type = "BUY"
                        THEN Max(pos.stop_loss, kf_level - kf_err * trail_multiplier)
                        ELSE Min(pos.stop_loss, kf_level + kf_err * trail_multiplier)
    IN  \/ pos.type = "BUY" /\ low <= trailed
        \/ pos.type = "SELL" /\ high >= trailed

\* backtester.py:103, 119
sl_hit(pos, high, low) ==
    \/ pos.type = "BUY" /\ low <= pos.stop_loss
    \/ pos.type = "SELL" /\ high >= pos.stop_loss

\* Variant of sl_close_price: the stop filled at the extreme of the bar
sl_close_price_at_extreme(pos, high, low) ==
    IF pos.type = "BUY" THEN low ELSE high

\* backtester.py:105, 120
sl_close_price(pos, high, low) == pos.stop_loss

\* backtester.py:101-133: the scan over enumerate(positions); st holds
\* closed_trades, realized_pnl, sl_closed and bars_since_close
RECURSIVE sl_scan(_, _, _, _, _, _)
sl_scan(poss, idx, st, high, low, date) ==
    IF idx > Len(poss) THEN st
    ELSE IF sl_hit(poss[idx], high, low)
         THEN LET t == ClosedTrade(poss[idx], date,
                                   sl_close_price(poss[idx], high, low),
                                   "stop_loss", i)
              IN  sl_scan(poss, idx + 1,
                          [closed_trades |-> Append(st.closed_trades, t),
                           realized_pnl |-> st.realized_pnl + t.profit,
                           sl_closed |-> Append(st.sl_closed, idx),
                           bars_since_close |-> 0],
                          high, low, date)
         ELSE sl_scan(poss, idx + 1, st, high, low, date)

\* list.pop(idx)
pop(poss, idx) == SubSeq(poss, 1, idx - 1) \o SubSeq(poss, idx + 1, Len(poss))

\* backtester.py:136-137: sl_closed is ascending, so sorted(reverse=True)
\* walks it from its last index to its first
RECURSIVE pop_sl_closed(_, _)
pop_sl_closed(poss, sl_closed) ==
    IF sl_closed = <<>> THEN poss
    ELSE pop_sl_closed(pop(poss, Last(sl_closed)), Front(sl_closed))

\* Variant of remove: the closed position left in the list
remove_skipped(poss, x) == poss

\* list.remove(x): drops the first element equal to x
remove(poss, x) ==
    IF \E k \in 1..Len(poss) : poss[k] = x
    THEN pop(poss, CHOOSE k \in 1..Len(poss) :
                       /\ poss[k] = x
                       /\ \A j \in 1..(k - 1) : poss[j] # x)
    ELSE poss

\* Variant of held_long_enough: one bar short of min_hold_bars
held_long_enough_off_by_one(pos, idx) ==
    (idx - pos.entry_bar_index) >= min_hold_bars - 1

\* backtester.py:143, 161
held_long_enough(pos, idx) == (idx - pos.entry_bar_index) >= min_hold_bars

\* backtester.py:143, 161
to_close_of(poss, type) ==
    SelectSeq(poss, LAMBDA p : p.type = type /\ held_long_enough(p, i))

\* backtester.py:142, 160
signal_close_price(type, close) ==
    IF type = "BUY" THEN close - half_spread ELSE close + half_spread

\* backtester.py:144-156, 162-174: st holds positions, closed_trades, realized_pnl
RECURSIVE close_each(_, _, _, _)
close_each(st, to_close, price, date) ==
    IF to_close = <<>> THEN st
    ELSE LET pos == Head(to_close)
             t == ClosedTrade(pos, date, price, "signal", i)
         IN  close_each([positions |-> remove(st.positions, pos),
                         closed_trades |-> Append(st.closed_trades, t),
                         realized_pnl |-> st.realized_pnl + t.profit,
                         bars_since_close |-> st.bars_since_close],
                        Tail(to_close), price, date)

\* backtester.py:157, 175
cooldown_after_signal_exit(st) == 0

\* backtester.py:141-157, 159-175
signal_exit(st, type, should_close, close, date) ==
    IF any_of_type(st.positions, type) /\ should_close
    THEN LET done == close_each(st, to_close_of(st.positions, type),
                                signal_close_price(type, close), date)
         IN  [done EXCEPT !.bars_since_close = cooldown_after_signal_exit(done)]
    ELSE st

\* Variant of reverse_protection: the signal passed on as it is
reverse_protection_skipped(signal, poss) == signal

\* backtester.py:180-184
reverse_protection(signal, poss) ==
    IF signal = "BUY" /\ any_of_type(poss, "SELL") THEN "NONE"
    ELSE IF signal = "SELL" /\ any_of_type(poss, "BUY") THEN "NONE"
    ELSE signal

\* Variant of cooldown: counted from the bar after the close
cooldown_from_next_bar(signal, since_close) ==
    IF signal # "NONE" /\ 0 < since_close /\ since_close < close_cooldown
    THEN "NONE" ELSE signal

\* backtester.py:186-188
cooldown(signal, since_close) ==
    IF signal # "NONE" /\ since_close < close_cooldown THEN "NONE" ELSE signal

\* Variant of entry_price_with: spread and slippage in the trader's favour
entry_price_with_costs_reversed(signal, close, half, slip) ==
    IF signal = "BUY" THEN close - half - slip
    ELSE close + half + slip

\* backtester.py:197-200, with the half spread and the slippage given
entry_price_with(signal, close, half, slip) ==
    IF signal = "BUY" THEN close + half + slip
    ELSE close - half - slip

\* backtester.py:197-200
entry_price_of(signal, close) ==
    entry_price_with(signal, close, half_spread, slippage)

\* Variant of trail_stop: positions younger than min_hold_bars trailed as well
trail_stop_without_min_hold(pos, trail_buy, trail_sell) ==
    IF pos.entry_bar_index = i THEN pos.stop_loss
    ELSE IF pos.type = "BUY" /\ trail_buy > 0
         THEN IF pos.stop_loss > 0 /\ trail_buy > pos.stop_loss
              THEN trail_buy ELSE pos.stop_loss
    ELSE IF pos.type = "SELL" /\ trail_sell > 0
         THEN IF pos.stop_loss > 0 /\ trail_sell < pos.stop_loss
              THEN trail_sell ELSE pos.stop_loss
    ELSE pos.stop_loss

\* Variant of trail_stop: the stop set to the trail value without the ratchet
trail_stop_unratcheted(pos, trail_buy, trail_sell) ==
    IF pos.entry_bar_index = i THEN pos.stop_loss
    ELSE IF (i - pos.entry_bar_index) < min_hold_bars THEN pos.stop_loss
    ELSE IF pos.type = "BUY" /\ trail_buy > 0 THEN trail_buy
    ELSE IF pos.type = "SELL" /\ trail_sell > 0 THEN trail_sell
    ELSE pos.stop_loss

\* backtester.py:229-238: the stop of one position after the trailing step
trail_stop(pos, trail_buy, trail_sell) ==
    IF pos.entry_bar_index = i THEN pos.stop_loss
    ELSE IF (i - pos.entry_bar_index) < min_hold_bars THEN pos.stop_loss
    ELSE IF pos.type = "BUY" /\ trail_buy > 0
         THEN IF pos.stop_loss > 0 /\ trail_buy > pos.stop_loss
              THEN trail_buy ELSE pos.stop_loss
    ELSE IF pos.type = "SELL" /\ trail_sell > 0
         THEN IF pos.stop_loss > 0 /\ trail_sell < pos.stop_loss
              THEN trail_sell ELSE pos.stop_loss
    ELSE pos.stop_loss

\* backtester.py:241-246
RECURSIVE unrealized_of(_, _)
unrealized_of(poss, close) ==
    IF poss = <<>> THEN 0
    ELSE unrealized_of(Front(poss), close) + profit_at(Last(poss), close)

\* Variant of equity_of: the realized profit left out
equity_of_unrealized_only(realized, unrealized) == initial_equity + unrealized

\* backtester.py:248
equity_of(realized, unrealized) == initial_equity + realized + unrealized

\* Variant of end_close_price: the last close without the half spread
end_close_price_at_last_close(type, last_close) == last_close

\* backtester.py:266, 269
end_close_price(type, last_close) ==
    IF type = "BUY" THEN last_close - half_spread ELSE last_close + half_spread

\* backtester.py:264-280: st holds closed_trades and realized_pnl
RECURSIVE close_remaining(_, _, _, _)
close_remaining(poss, st, last_close, last_date) ==
    IF poss = <<>> THEN st
    ELSE LET t == ClosedTrade(Head(poss), last_date,
                              end_close_price(Head(poss).type, last_close),
                              "end_of_data", n_bars - 1)
         IN  close_remaining(Tail(poss),
                             [closed_trades |-> Append(st.closed_trades, t),
                              realized_pnl |-> st.realized_pnl + t.profit],
                             last_close, last_date)

-----------------------------------------------------------------------------
(* The run as a state machine *)

\* backtester.py:70
full_warmup == Max(hurst_period, vol_hist_period) + WarmupExtra

\* Runs shorter than the warmup: warmup_bars is then n_bars - 1
ShortRuns == {1, 2}

\* The bar counts of the runs of the model
NBars == ShortRuns \cup {full_warmup + MaxTradeBars}

\* A buffer of n zeros ([0.0] * n)
zeros(n) == [k \in 1..n |-> 0]

\* kalman_filter.py:15-16, 25-27
identity2 == <<<<1, 0>>, <<0, 1>>>>
diagonal2(q) == <<<<q, 0>>, <<0, q>>>>

\* What the estimators hold besides the read-outs once SignalEngine() is
\* built and init is called with the configuration (signal_engine.py:13-30,
\* kalman_filter.py:11-28, hurst_exponent.py:17-22, volatility_regime.py:26-36)
engine_as_configured ==
    /\ kf_P = identity2
    /\ kf_Q = diagonal2(kf_process_noise)
    /\ kf_R = kf_observ_noise
    /\ hurst_returns = zeros(hurst_period)
    /\ hurst_head = 0
    /\ vol_returns = zeros(vol_period)
    /\ vol_ret_head = 0
    /\ vol_history = zeros(vol_hist_period)
    /\ vol_head = 0
    /\ vol_count = 0
    /\ vol_current = 0

\* No method has been called yet
NoCall == [op |-> "run", args |-> <<>>, ret |-> <<>>]

\* backtester.py:34-71 and the constructors of the estimators
Init ==
    /\ pc = "first_bar"
    /\ n_bars \in NBars
    /\ warmup_bars = Min(full_warmup, n_bars - 1)
    /\ max_positions \in 0..MaxPositionsCfg
    /\ i = 0
    /\ bar_close = 0
    /\ bar_high = 0
    /\ bar_low = 0
    /\ today = NoDay
    /\ last_day = NoDay
    /\ kf_initialized = FALSE
    /\ kf_level = 0
    /\ kf_slope = 0
    /\ kf_err = 1
    /\ hurst_count = 0
    /\ hurst = InitialHurst
    /\ vol_ret_count = 0
    /\ vol_percentile = InitialPercentile
    /\ day_start_equity = initial_equity
    /\ equity = initial_equity
    /\ realized_pnl = 0
    /\ positions = <<>>
    /\ closed_trades = <<>>
    /\ next_ticket = 1
    /\ bars_since_close = InitialBarsSinceClose
    /\ entry_this_bar = FALSE
    /\ entry_signal = "NONE"
    /\ result = <<>>
    /\ called_before = FALSE
    /\ data = <<>>
    /\ earlier = NotCompared
    /\ call = NoCall
    /\ n_feeds = 0
    /\ engine_as_configured

\* backtester.py:75, 79: where the run goes once bar k - 1 of the warmup is fed
after_warmup_pc(k) ==
    IF k < warmup_bars THEN "warmup"
    ELSE IF warmup_bars < n_bars THEN "begin" ELSE "close_remaining"

\* Variant of after_warmup_i: the trading loop started one bar late
after_warmup_i_one_late(k) == IF k < warmup_bars THEN k ELSE warmup_bars + 1

\* backtester.py:75, 79: the bar index the run goes on with
after_warmup_i(k) == IF k < warmup_bars THEN k ELSE warmup_bars

\* backtester.py:74
FirstBar ==
    /\ pc = "first_bar"
    /\ UNCHANGED <<called_before, earlier>>
    /\ \E c \in Closes :
          /\ feed(0, c, c)
          /\ bar_close' = c
    /\ data' = bars_read(0, FALSE)
    /\ i' = after_warmup_i(1)
    /\ pc' = after_warmup_pc(1)
    /\ UNCHANGED <<n_bars, warmup_bars, max_positions, bar_high, bar_low>>
    /\ UNCHANGED book_vars

\* backtester.py:75-76
WarmupBar ==
    /\ pc = "warmup"
    /\ UNCHANGED <<called_before, earlier>>
    /\ \E c \in Closes :
          /\ feed(i, c, bar_close)
          /\ bar_close' = c
    /\ data' = bars_read(i, FALSE)
    /\ i' = after_warmup_i(i + 1)
    /\ pc' = after_warmup_pc(i + 1)
    /\ UNCHANGED <<n_bars, warmup_bars, max_positions, bar_high, bar_low>>
    /\ UNCHANGED book_vars

\* The calendar dates the next bar can carry: ascending, 0 on the first
\* trading bar
NextDays == IF today = NoDay THEN {0} ELSE {today, today + 1} \cap (0..MaxDay)

\* Variant of on_new_day: the equity of the start of the run kept
on_new_day_keeps_initial(eq) == initial_equity

\* risk_manager.py:21-22: the day-start equity after on_new_day(equity)
on_new_day(eq) == eq

\* backtester.py:80-98
BeginBar ==
    /\ pc = "begin"
    /\ UNCHANGED <<called_before, earlier>>
    /\ entry_this_bar' = FALSE
    /\ bars_since_close' = bars_since_close + 1
    /\ \E d \in NextDays :
          /\ today' = d
          /\ IF d # last_day
             THEN day_start_equity' = on_new_day(equity) /\ last_day' = d
             ELSE UNCHANGED <<day_start_equity, last_day>>
    /\ \E c \in Closes, r \in BarRanges :
          /\ i = 0 => c = bar_close    \* n_bars = 1: bar 0, fed at line 74, again
          /\ feed(i, c, bar_close)
          /\ bar_close' = c
          /\ bar_high' = c + r
          /\ bar_low' = c - r
    /\ data' = bars_read(i, TRUE)
    /\ pc' = "stoploss"
    /\ UNCHANGED <<n_bars, warmup_bars, max_positions, i, equity, realized_pnl,
                   positions, closed_trades, next_ticket, entry_signal, result>>

\* backtester.py:100-137
StopLossCheck ==
    /\ pc = "stoploss"
    /\ UNCHANGED caller_vars
    /\ LET st == sl_scan(positions, 1,
                         [closed_trades |-> closed_trades,
                          realized_pnl |-> realized_pnl,
                          sl_closed |-> <<>>,
                          bars_since_close |-> bars_since_close],
                         bar_high, bar_low, today)
       IN  /\ closed_trades' = st.closed_trades
           /\ realized_pnl' = st.realized_pnl
           /\ bars_since_close' = st.bars_since_close
           /\ positions' = pop_sl_closed(positions, st.sl_closed)
    /\ pc' = "sigexit"
    /\ UNCHANGED <<n_bars, warmup_bars, max_positions, i, bar_close, bar_high,
                   bar_low, today, last_day, day_start_equity, equity,
                   next_ticket, entry_this_bar, entry_signal, result>>
    /\ UNCHANGED engine_vars

\* backtester.py:139-175
SignalExit ==
    /\ pc = "sigexit"
    /\ UNCHANGED caller_vars
    /\ LET st0 == [positions |-> positions, closed_trades |-> closed_trades,
                   realized_pnl |-> realized_pnl,
                   bars_since_close |-> bars_since_close]
           st1 == signal_exit(st0, "BUY", should_close_buy, bar_close, today)
           st2 == signal_exit(st1, "SELL", should_close_sell, bar_close, today)
       IN  /\ positions' = st2.positions
           /\ closed_trades' = st2.closed_trades
           /\ realized_pnl' = st2.realized_pnl
           /\ bars_since_close' = st2.bars_since_close
    /\ pc' = "entry"
    /\ UNCHANGED <<n_bars, warmup_bars, max_positions, i, bar_close, bar_high,
                   bar_low, today, last_day, day_start_equity, equity,
                   next_ticket, entry_this_bar, entry_signal, result>>
    /\ UNCHANGED engine_vars

\* Variant of ticket_after: the counter not advanced
ticket_reused(ticket) == ticket

\* backtester.py:218
ticket_after(ticket) == ticket + 1

\* Variant of opens_position: either condition taken as enough
opens_position_on_either(lots, allowed) == lots > 0 \/ allowed

\* backtester.py:205-207
opens_position(lots, allowed) == lots > 0 /\ allowed

\* backtester.py:177-219
EntryDecision ==
    /\ pc = "entry"
    /\ UNCHANGED caller_vars
    /\ LET sig == cooldown(reverse_protection(get_entry_signal(bar_close), positions),
                           bars_since_close)
           sl == get_stop_loss(sig, kf_level, kf_err, kf_conf_band)
           entry_price == entry_price_of(sig, bar_close)
           stop_points == get_stop_points(entry_price, sl, point)
           lots == calc_lots(stop_points, get_vol_regime, equity, positions,
                             entry_price)
       IN  /\ entry_signal' = sig
           /\ IF /\ sig # "NONE"
                 /\ opens_position(lots,
                                   can_open_trade(positions, equity, spread_points,
                                                  lots, entry_price))
              THEN /\ positions' = Append(positions,
                                     Position(next_ticket, sig, today, entry_price,
                                              lots, sl, i))
                   /\ next_ticket' = ticket_after(next_ticket)
                   /\ entry_this_bar' = TRUE
              ELSE UNCHANGED <<positions, next_ticket, entry_this_bar>>
    /\ pc' = "trail"
    /\ UNCHANGED <<n_bars, warmup_bars, max_positions, i, bar_close, bar_high,
                   bar_low, today, last_day, day_start_equity, equity,
                   realized_pnl, closed_trades, bars_since_close, result>>
    /\ UNCHANGED engine_vars

\* backtester.py:221-238
TrailingStop ==
    /\ pc = "trail"
    /\ UNCHANGED caller_vars
    /\ IF ~entry_this_bar /\ positions # <<>>
       THEN LET trail_buy == kf_level - kf_err * trail_multiplier
                trail_sell == kf_level + kf_err * trail_multiplier
            IN  positions' =
                    [k \in 1..Len(positions) |->
                        [positions[k] EXCEPT
                            !.stop_loss = trail_stop(positions[k], trail_buy, trail_sell)]]
       ELSE UNCHANGED positions
    /\ pc' = "equity"
    /\ UNCHANGED <<n_bars, warmup_bars, max_positions, i, bar_close, bar_high,
                   bar_low, today, last_day, day_start_equity, equity,
                   realized_pnl, closed_trades, next_ticket, bars_since_close,
                   entry_this_bar, entry_signal, result>>
    /\ UNCHANGED engine_vars

\* Variant of recorded_signal: the signal recorded whether or not it opened
\* a position
recorded_signal_unfiltered(fired, signal) == signal

\* backtester.py:257
recorded_signal(fired, signal) == IF fired THEN signal ELSE "NONE"

\* Variant of loop_goes_on: one iteration more
loop_goes_on_one_more(k) == k <= n_bars

\* backtester.py:79: range(warmup_bars, n_bars)
loop_goes_on(k) == k < n_bars

\* backtester.py:251-258: the per-bar record.  The lists kalman_levels,
\* kalman_upper, kalman_lower, hurst_values and vol_regimes are appended in the
\* same block and never read by the run; the record keeps their place.
BarRecord(eq, signal, date) == [equity |-> eq, signal |-> signal, date |-> date]

\* backtester.py:240-258 and the step of the loop (line 79).  bar_high, bar_low,
\* entry_signal and entry_this_bar are assigned by every iteration before it
\* reads them: they are cleared when the iteration ends.
UpdateEquity ==
    /\ pc = "equity"
    /\ UNCHANGED caller_vars
    /\ equity' = equity_of(realized_pnl, unrealized_of(positions, bar_close))
    /\ result' = Append(result,
                        BarRecord(equity',
                                  recorded_signal(entry_this_bar, entry_signal),
                                  today))
    /\ i' = i + 1
    /\ pc' = IF loop_goes_on(i + 1) THEN "begin" ELSE "close_remaining"
    /\ bar_high' = 0
    /\ bar_low' = 0
    /\ entry_signal' = "NONE"
    /\ entry_this_bar' = FALSE
    /\ UNCHANGED <<n_bars, warmup_bars, max_positions, bar_close,
                   today, last_day, day_start_equity, realized_pnl,
                   positions, closed_trades, next_ticket, bars_since_close>>
    /\ UNCHANGED engine_vars

\* backtester.py:260-283
CloseRemaining ==
    /\ pc = "close_remaining"
    /\ UNCHANGED caller_vars
    /\ LET st == close_remaining(positions,
                                 [closed_trades |-> closed_trades,
                                  realized_pnl |-> realized_pnl],
                                 bar_close, today)
       IN  /\ closed_trades' = st.closed_trades
           /\ realized_pnl' = st.realized_pnl
    /\ pc' = "done"
    /\ UNCHANGED <<n_bars, warmup_bars, max_positions, i, bar_close, bar_high,
                   bar_low, today, last_day, day_start_equity, equity, positions,
                   next_ticket, bars_since_close, entry_this_bar, entry_signal,
                   result>>
    /\ UNCHANGED engine_vars

Next ==
    \/ FirstBar
    \/ WarmupBar
    \/ BeginBar
    \/ StopLossCheck
    \/ SignalExit
    \/ EntryDecision
    \/ TrailingStop
    \/ UpdateEquity
    \/ CloseRemaining

Spec == Init /\ [][Next]_vars

-----------------------------------------------------------------------------
(* Claims *)

\* The trading bar the k-th per-bar record belongs to
BarOfRecord(k) == warmup_bars + k - 1

\* Every position the run has opened so far, open or closed
Opened ==
    {[ticket |-> positions[k].ticket,
      entry_bar_index |-> positions[k].entry_bar_index] : k \in 1..Len(positions)}
    \cup
    {[ticket |-> closed_trades[k].ticket,
      entry_bar_index |-> closed_trades[k].entry_bar_index] :
        k \in 1..Len(closed_trades)}

\* C1: at every point of the run the open positions never hold both a BUY and
\* a SELL position.
C1_NeverLongAndShort ==
    ~(any_of_type(positions, "BUY") /\ any_of_type(positions, "SELL"))

\* C1 witness: a SELL entry signal fires while a BUY position is open, the
\* cooldown is over, and the entry step has run.
C1_Witness ==
    /\ pc = "trail"
    /\ any_of_type(positions, "BUY")
    /\ get_entry_signal(bar_close) = "SELL"
    /\ bars_since_close >= close_cooldown
    /\ Len(positions) < max_positions

\* C2: in every step, the stop of a position that stays open never decreases
\* for a BUY and never increases for a SELL, and only the trailing step
\* changes it.
C2_StopOnlyTightens ==
    [][\A k \in 1..Len(positions) : \A m \in 1..Len(positions') :
          positions[k].ticket = positions'[m].ticket
          => /\ positions[k].type = "BUY"
                => positions'[m].stop_loss >= positions[k].stop_loss
             /\ positions[k].type = "SELL"
                => positions'[m].stop_loss <= positions[k].stop_loss
             /\ pc # "trail"
                => positions'[m].stop_loss = positions[k].stop_loss]_vars

\* C2 witness: a BUY position whose stop stands at or above the close of its
\* entry bar, where no entry can put it (the entry stop is below the lower
\* band): the trailing step has moved it.
C2_Witness ==
    \E k \in 1..Len(positions) :
        /\ positions[k].type = "BUY"
        /\ positions[k].stop_loss >= positions[k].open_price - half_spread - slippage

\* Some position was closed fewer than close_cooldown bars ago
ClosedRecently ==
    \E k \in 1..Len(closed_trades) :
        i - closed_trades[k].exit_bar_index < close_cooldown

\* C3: an entry signal that survives reversal protection is suppressed by the
\* cooldown if and only if fewer than close_cooldown bars have elapsed since
\* the last bar on which a position was actually closed; with no position
\* closed yet it is never suppressed.
C3_CooldownIffClosedRecently ==
    (pc = "trail"
     /\ reverse_protection(get_entry_signal(bar_close), positions) # "NONE")
    => ((entry_signal = "NONE") <=> ClosedRecently)

\* Day-start equity in force on the bar of record k: the equity recorded by
\* the last bar of the previous calendar date (initial_equity on the first)
DayStartEquityAt(k) ==
    LET first == CHOOSE f \in 1..k :
                     /\ result[f].date = result[k].date
                     /\ \A g \in 1..(f - 1) : result[g].date # result[k].date
    IN  IF first = 1 THEN initial_equity ELSE result[first - 1].equity

\* The equity eq is below the day-start equity dse by more than max_daily_dd,
\* as a fraction of dse
OverLimit(eq, dse) ==
    /\ eq < dse
    /\ (dse - eq) * max_daily_dd_den > max_daily_dd_num * dse

\* The bar of record k ended with the daily drawdown over the limit
BreachedAt(k) == OverLimit(result[k].equity, DayStartEquityAt(k))

\* A position was opened on the bar of record k
OpenedAt(k) == \E o \in Opened : o.entry_bar_index = BarOfRecord(k)

\* C4 as claimed: once a bar of a calendar day has ended with the equity below
\* the day-start equity by more than max_daily_dd, no position is opened on
\* any later bar of that day.
C4_NoEntryAfterBreachSameDay ==
    \A j \in 1..Len(result) : \A k \in 1..Len(result) :
        (j < k /\ result[j].date = result[k].date /\ BreachedAt(j))
        => ~OpenedAt(k)

\* C4 amended: no position is opened on a bar whose preceding bar, of the same
\* calendar day, ended with the equity below the day-start equity by more than
\* max_daily_dd; and no entry step opens a position while the equity it is
\* given is over the limit.
C4_NoEntryRightAfterBreach ==
    /\ \A k \in 2..Len(result) :
          (result[k - 1].date = result[k].date /\ BreachedAt(k - 1))
          => ~OpenedAt(k)
    /\ (pc = "trail" /\ entry_this_bar)
       => ~OverLimit(equity, day_start_equity)

\* C4 witness: an entry signal survived reversal protection and cooldown on a
\* bar that follows a breach, there was room for a position, and none was
\* opened.
C4_Witness ==
    /\ pc = "trail"
    /\ entry_signal # "NONE"
    /\ ~entry_this_bar
    /\ Len(positions) < max_positions
    /\ OverLimit(equity, day_start_equity)
    /\ result # <<>>
    /\ result[Len(result)].date = today

RECURSIVE SumOfProfits(_)
SumOfProfits(trades) ==
    IF trades = <<>> THEN 0
    ELSE SumOfProfits(Front(trades)) + Last(trades).profit

RECURSIVE UnrealizedAsClaimed(_, _)
UnrealizedAsClaimed(poss, close) ==
    IF poss = <<>> THEN 0
    ELSE UnrealizedAsClaimed(Front(poss), close)
         + (IF Last(poss).type = "BUY"
            THEN (close - Last(poss).open_price) * Last(poss).lots * contract_size
            ELSE (Last(poss).open_price - close) * Last(poss).lots * contract_size)

\* C5: the equity a trading bar records is initial_equity plus the profit of
\* every ClosedTrade recorded so far plus the unrealized profit, at the bar
\* close, of the positions still open.
C5_EquityIdentity ==
    (pc \in {"begin", "close_remaining"} /\ result # <<>>)
    => result[Len(result)].equity
         = initial_equity + SumOfProfits(closed_trades)
           + UnrealizedAsClaimed(positions, bar_close)

\* C5 witness: a bar has just been recorded with a closed trade behind it and
\* a position still open.
C5_Witness ==
    /\ pc = "begin"
    /\ result # <<>>
    /\ closed_trades # <<>>
    /\ positions # <<>>
    /\ SumOfProfits(closed_trades) # 0
    /\ UnrealizedAsClaimed(positions, bar_close) # 0

\* The stop of p is touched by the bar
Touched(p) ==
    \/ p.type = "BUY" /\ bar_low <= p.stop_loss
    \/ p.type = "SELL" /\ bar_high >= p.stop_loss

\* C6: the stop-loss step closes exactly the positions whose stop the bar
\* touches, each once, at its stop price, with reason stop_loss, and leaves the
\* others open in their order.
C6_StopLossStep ==
    [][pc = "stoploss" =>
        LET old == Len(closed_trades)
            new == Len(closed_trades')
            hit == {k \in 1..Len(positions) : Touched(positions[k])}
        IN  /\ positions' = SelectSeq(positions, LAMBDA p : ~Touched(p))
            /\ new = old + Cardinality(hit)
            /\ SubSeq(closed_trades', 1, old) = closed_trades
            /\ \A k \in hit :
                  \E m \in (old + 1)..new :
                      /\ closed_trades'[m].ticket = positions[k].ticket
                      /\ closed_trades'[m].close_reason = "stop_loss"
                      /\ closed_trades'[m].close_price = positions[k].stop_loss
                      /\ closed_trades'[m].exit_bar_index = i]_vars

\* C6 witness: the stop-loss step has closed one position on this bar at a
\* stop the bar low went through, and left another one open.
C6_Witness ==
    /\ pc = "sigexit"
    /\ positions # <<>>
    /\ \E k \in 1..Len(closed_trades) :
          /\ closed_trades[k].close_reason = "stop_loss"
          /\ closed_trades[k].exit_bar_index = i
          /\ closed_trades[k].type = "BUY"
          /\ bar_low < closed_trades[k].close_price

\* C7: when the run returns, every ticket assigned appears in the trade log
\* exactly once, the log holds no other ticket, and every close reason is
\* signal, stop_loss or end_of_data.
C7_OneTradePerTicket ==
    pc = "done" =>
        /\ \A t \in 1..(next_ticket - 1) :
              Cardinality({k \in 1..Len(closed_trades) :
                              closed_trades[k].ticket = t}) = 1
        /\ \A k \in 1..Len(closed_trades) :
              /\ closed_trades[k].ticket \in 1..(next_ticket - 1)
              /\ closed_trades[k].close_reason
                    \in {"signal", "stop_loss", "end_of_data"}

\* C7 witness: the run has returned with a trade closed by signal and a trade
\* closed at the end of the data.
C7_Witness ==
    /\ pc = "done"
    /\ \E k \in 1..Len(closed_trades) : closed_trades[k].close_reason = "signal"
    /\ \E k \in 1..Len(closed_trades) : closed_trades[k].close_reason = "end_of_data"

\* C8: tickets are handed out as 1, 2, 3, ... in the order of opening: a
\* position opened later carries a greater ticket, and no two positions, open
\* or closed, share one.
C8_TicketsIncrease ==
    /\ {o.ticket : o \in Opened} = 1..(next_ticket - 1)
    /\ \A a \in Opened : \A b \in Opened :
          /\ a.ticket = b.ticket => a = b
          /\ a.entry_bar_index < b.entry_bar_index => a.ticket < b.ticket
    /\ \A k \in 1..Len(positions) : \A m \in 1..Len(positions) :
          k < m => positions[k].ticket < positions[m].ticket
    /\ \A k \in 1..Len(closed_trades) : \A m \in 1..Len(closed_trades) :
          k # m => closed_trades[k].ticket # closed_trades[m].ticket
    /\ pc # "done" =>
          \A k \in 1..Len(positions) : \A m \in 1..Len(closed_trades) :
              positions[k].ticket # closed_trades[m].ticket

\* C8 witness: the first position opened is in the trade log and a position
\* opened after it, with a greater ticket, is open.
C8_Witness ==
    /\ pc # "done"
    /\ \E k \in 1..Len(positions) : \E m \in 1..Len(closed_trades) :
          /\ closed_trades[m].ticket = 1
          /\ positions[k].ticket = 2
          /\ closed_trades[m].entry_bar_index < positions[k].entry_bar_index

\* C9: the number of open positions never exceeds max_positions.
C9_AtMostMaxPositions == Len(positions) <= max_positions

\* C9 witness: max_positions positions are open and an entry signal that
\* survived reversal protection and cooldown, with the drawdown within its
\* limit, opened nothing.
C9_Witness ==
    /\ pc = "trail"
    /\ max_positions >= 1
    /\ Len(positions) = max_positions
    /\ entry_signal # "NONE"
    /\ ~entry_this_bar
    /\ ~daily_dd_exceeded(equity, day_start_equity)

\* C10: a trade is closed with reason signal only by the signal-exit step,
\* only after min_hold_bars bars, and at the bar close less half the spread
\* for a BUY, plus half the spread for a SELL; when the close-long
\* (close-short) condition holds, every long (short) position held for fewer
\* than min_hold_bars bars is still open after the step.
C10_SignalExitStep ==
    [][/\ \A m \in (Len(closed_trades) + 1)..Len(closed_trades') :
             closed_trades'[m].close_reason = "signal"
             => /\ pc = "sigexit"
                /\ closed_trades'[m].exit_bar_index = i
                /\ closed_trades'[m].exit_bar_index
                     - closed_trades'[m].entry_bar_index >= min_hold_bars
                /\ closed_trades'[m].type = "BUY"
                   => closed_trades'[m].close_price = bar_close - half_spread
                /\ closed_trades'[m].type = "SELL"
                   => closed_trades'[m].close_price = bar_close + half_spread
       /\ pc = "sigexit"
          => \A k \in 1..Len(positions) :
                (/\ i - positions[k].entry_bar_index < min_hold_bars
                 /\ \/ positions[k].type = "BUY" /\ should_close_buy
                    \/ positions[k].type = "SELL" /\ should_close_sell)
                => \E m \in 1..Len(positions') : positions'[m] = positions[k]]_vars

\* C10 witness: on one bar the signal-exit step has closed a long position and
\* kept a younger long position open.
C10_Witness ==
    /\ pc = "entry"
    /\ should_close_buy
    /\ \E k \in 1..Len(closed_trades) :
          /\ closed_trades[k].close_reason = "signal"
          /\ closed_trades[k].exit_bar_index = i
    /\ \E k \in 1..Len(positions) :
          /\ positions[k].type = "BUY"
          /\ i - positions[k].entry_bar_index < min_hold_bars

-----------------------------------------------------------------------------
(* The entry step alone, from the states a run can bring it to: a run of    *)
(* losses leaves any equity, so the equities here include ones too small    *)
(* for the margin of the smallest lot.                                      *)

\* Equities at the entry step
EntryEquities == {0 - 100, 50, 9600, 10000}

\* Open positions at the entry step: none, or one long position opened on
\* the bar before
EntryBooks(bar) == {<<>>, <<Position(1, "BUY", 0, 101, 2, 94, bar - 1)>>}

EntryInit ==
    /\ pc = "entry"
    /\ n_bars = full_warmup + MaxTradeBars
    /\ warmup_bars = Min(full_warmup, n_bars - 1)
    /\ max_positions \in 0..MaxPositionsCfg
    /\ i = warmup_bars + 1
    /\ bar_close \in Closes
    /\ \E r \in BarRanges : bar_high = bar_close + r /\ bar_low = bar_close - r
    /\ today = 0
    /\ last_day = 0
    /\ kf_initialized = TRUE
    /\ kf_level \in {bar_close + o : o \in LevelOffsets}
    /\ kf_slope \in Slopes
    /\ kf_err \in Errs
    /\ hurst_count = hurst_period
    /\ hurst \in Hursts
    /\ vol_ret_count = vol_period
    /\ vol_percentile \in Percentiles
    /\ day_start_equity = initial_equity
    /\ equity \in EntryEquities
    /\ realized_pnl = 0
    /\ positions \in EntryBooks(i)
    /\ closed_trades = <<>>
    /\ next_ticket = Len(positions) + 1
    /\ bars_since_close \in {1, InitialBarsSinceClose + 2}
    /\ entry_this_bar = FALSE
    /\ entry_signal = "NONE"
    /\ result = <<>>
    /\ called_before = FALSE
    /\ data = <<>>
    /\ earlier = NotCompared
    /\ call = NoCall
    /\ n_feeds = 0
    /\ engine_as_configured

EntrySpec == EntryInit /\ [][EntryDecision]_vars

\* C12: when an entry signal survives reversal protection and cooldown but
\* calc_lots gives 0 or can_open_trade refuses, the entry step completes and
\* leaves the open positions, the next ticket and the trade log as they were.
C12_RefusedEntryChangesNothing ==
    [][LET sig == cooldown(reverse_protection(get_entry_signal(bar_close),
                                              positions), bars_since_close)
           entry_price == entry_price_of(sig, bar_close)
           lots == calc_lots(get_stop_points(entry_price,
                                             get_stop_loss(sig, kf_level, kf_err,
                                                           kf_conf_band), point),
                             get_vol_regime, equity, positions, entry_price)
       IN  (/\ pc = "entry"
            /\ sig # "NONE"
            /\ \/ lots = 0
               \/ ~can_open_trade(positions, equity, spread_points, lots,
                                  entry_price))
           => /\ pc' = "trail"
              /\ positions' = positions
              /\ next_ticket' = next_ticket
              /\ closed_trades' = closed_trades]_vars

\* C12 witness: the entry step has run with a surviving entry signal and room
\* for a position, the sizing gave 0 lots, and nothing was opened.
C12_Witness ==
    /\ pc = "trail"
    /\ entry_signal # "NONE"
    /\ ~entry_this_bar
    /\ Len(positions) < max_positions
    /\ LET entry_price == entry_price_of(entry_signal, bar_close)
       IN  calc_lots(get_stop_points(entry_price,
                                     get_stop_loss(entry_signal, kf_level, kf_err,
                                                   kf_conf_band), point),
                     get_vol_regime, equity, positions, entry_price) = 0

\* C11: a stop changes only in the trailing step of a bar on which no position
\* was opened, and only for a position held at least min_hold_bars bars: on a
\* bar where a position is opened no stop changes, and the stop of a position
\* held fewer than min_hold_bars bars is left as it is.
C11_NoTrailOnEntryBarOrYoung ==
    [][\A k \in 1..Len(positions) : \A m \in 1..Len(positions') :
          (/\ positions[k].ticket = positions'[m].ticket
           /\ positions'[m].stop_loss # positions[k].stop_loss)
          => /\ pc = "trail"
             /\ ~entry_this_bar
             /\ i - positions[k].entry_bar_index >= min_hold_bars]_vars

\* C11 witness: the trailing step has run on a bar on which a position was
\* opened, while an older long position, held min_hold_bars bars or more, had
\* its stop below the trail value.
C11_Witness ==
    /\ pc = "equity"
    /\ entry_this_bar
    /\ \E k \in 1..Len(positions) :
          /\ positions[k].type = "BUY"
          /\ i - positions[k].entry_bar_index >= min_hold_bars
          /\ positions[k].stop_loss > 0
          /\ kf_level - kf_err * trail_multiplier > positions[k].stop_loss

\* The trades of the log that carry ticket t
TradesOf(t) == {k \in 1..Len(closed_trades) : closed_trades[k].ticket = t}

\* C13: when the run returns, every position that was still open after the
\* last bar has exactly one trade, with reason end_of_data, exit_bar_index
\* n_bars - 1 and close price last close - half_spread for a BUY, last close +
\* half_spread for a SELL; every end_of_data trade belongs to such a position,
\* and none is produced before the last bar is done.
C13_EndOfDataClose ==
    /\ pc = "done" =>
          /\ \A k \in 1..Len(positions) :
                /\ Cardinality(TradesOf(positions[k].ticket)) = 1
                /\ \A m \in TradesOf(positions[k].ticket) :
                      /\ closed_trades[m].close_reason = "end_of_data"
                      /\ closed_trades[m].exit_bar_index = n_bars - 1
                      /\ closed_trades[m].type = "BUY"
                         => closed_trades[m].close_price = bar_close - half_spread
                      /\ closed_trades[m].type = "SELL"
                         => closed_trades[m].close_price = bar_close + half_spread
          /\ \A m \in 1..Len(closed_trades) :
                closed_trades[m].close_reason = "end_of_data"
                => \E k \in 1..Len(positions) :
                      positions[k].ticket = closed_trades[m].ticket
    /\ pc # "done" =>
          \A m \in 1..Len(closed_trades) :
              closed_trades[m].close_reason # "end_of_data"

\* C13 witness: the run has returned after closing a short position at the
\* end of the data, with a stop-loss trade earlier in the log.
C13_Witness ==
    /\ pc = "done"
    /\ \E m \in 1..Len(closed_trades) :
          /\ closed_trades[m].close_reason = "end_of_data"
          /\ closed_trades[m].type = "SELL"
    /\ \E m \in 1..Len(closed_trades) :
          closed_trades[m].close_reason = "stop_loss"

\* C14: every trade of the log, whatever its close reason, has
\* exit_bar_index >= entry_bar_index.
C14_ExitNotBeforeEntry ==
    \A m \in 1..Len(closed_trades) :
        closed_trades[m].exit_bar_index >= closed_trades[m].entry_bar_index

\* C14 witness: the log holds a trade closed on the bar it was opened on (at
\* the end of the data) and a trade closed on a later bar.
C14_Witness ==
    /\ \E m \in 1..Len(closed_trades) :
          closed_trades[m].exit_bar_index = closed_trades[m].entry_bar_index
    /\ \E m \in 1..Len(closed_trades) :
          closed_trades[m].exit_bar_index > closed_trades[m].entry_bar_index

\* C15: when the run returns on n_bars bars, the per-bar records number
\* n_bars - warmup_bars with warmup_bars = min(max(hurst_period,
\* vol_hist_period) + 50, n_bars - 1), and the entry and exit bar index of
\* every trade lie in warmup_bars .. n_bars - 1, so that entry_bar_index -
\* warmup_bars is an index of the equity curve.
C15_RecordsStartAtWarmup ==
    pc = "done" =>
        /\ warmup_bars = Min(Max(hurst_period, vol_hist_period) + WarmupExtra,
                             n_bars - 1)
        /\ Len(result) = n_bars - warmup_bars
        /\ \A m \in 1..Len(closed_trades) :
              /\ closed_trades[m].entry_bar_index \in warmup_bars..(n_bars - 1)
              /\ closed_trades[m].exit_bar_index \in warmup_bars..(n_bars - 1)
              /\ closed_trades[m].entry_bar_index - warmup_bars
                    \in 0..(Len(result) - 1)

\* C15 witness: the run has returned with a trade opened on the first trading
\* bar and a trade closed on the last bar, several trading bars apart.
C15_Witness ==
    /\ pc = "done"
    /\ n_bars - warmup_bars > 2
    /\ \E m \in 1..Len(closed_trades) :
          closed_trades[m].entry_bar_index = warmup_bars
    /\ \E m \in 1..Len(closed_trades) :
          /\ closed_trades[m].exit_bar_index = n_bars - 1
          /\ closed_trades[m].entry_bar_index > warmup_bars

-----------------------------------------------------------------------------
(* RiskManager called directly: the state of the manager and the book is    *)
(* drawn, then can_open_trade and calc_lots are called on it with drawn     *)
(* arguments.                                                               *)

\* Equities: negative, too small for one lot, at the edges of the margin of
\* a second position, at the edges of the drawdown limit, and whole
RiskEquities == {0 - 100, 150, 401, 402, 1500, 9699, 9700, 10000}

\* Day-start equities: none, and the initial equity
RiskDayStarts == {0, initial_equity}

\* Open positions: none, or one long position of 2 lots
RiskBooks == {<<>>, <<Position(1, "BUY", 0, 101, 2, 94, full_warmup)>>}

\* Arguments of can_open_trade
RiskSpreads == {max_spread_points, max_spread_points + 1}
RiskNewLots == {1, 2}

\* Arguments of calc_lots
RiskInstruments ==
    [point_value : {0 - 1, 0, point_value}, min_lot : {1, 2}, max_lot : {2, 3}]
RiskStopPoints == {0 - 1, 0, 1, 7}
RiskRegimes == {"LOW", "NORMAL", "HIGH"}
RiskPrices == {100, 1000}

RiskInit ==
    /\ pc = "risk"
    /\ n_bars = full_warmup + MaxTradeBars
    /\ warmup_bars = full_warmup
    /\ max_positions \in 0..MaxPositionsCfg
    /\ i = warmup_bars + 1
    /\ bar_close = 100
    /\ bar_high = 100
    /\ bar_low = 100
    /\ today = 0
    /\ last_day = 0
    /\ kf_initialized = TRUE
    /\ kf_level = 100
    /\ kf_slope = 0
    /\ kf_err = 1
    /\ hurst_count = hurst_period
    /\ hurst = InitialHurst
    /\ vol_ret_count = vol_period
    /\ vol_percentile = InitialPercentile
    /\ day_start_equity \in RiskDayStarts
    /\ equity \in RiskEquities
    /\ realized_pnl = 0
    /\ positions \in RiskBooks
    /\ closed_trades = <<>>
    /\ next_ticket = Len(positions) + 1
    /\ bars_since_close = InitialBarsSinceClose
    /\ entry_this_bar = FALSE
    /\ entry_signal = "NONE"
    /\ result = <<>>
    /\ called_before = FALSE
    /\ data = <<>>
    /\ earlier = NotCompared
    /\ call = NoCall
    /\ n_feeds = 0
    /\ engine_as_configured

\* risk_manager.py:89-117
CallCanOpenTrade ==
    /\ pc = "risk"
    /\ \E spread \in RiskSpreads, new_lots \in RiskNewLots :
          call' = [op |-> "can_open_trade",
                   args |-> [spread |-> spread, new_lots |-> new_lots,
                             new_price |-> bar_close],
                   ret |-> can_open_trade(positions, equity, spread, new_lots,
                                          bar_close)]
    /\ UNCHANGED <<pc, n_bars, warmup_bars, max_positions, i, bar_close, bar_high,
                   bar_low, called_before, n_feeds, data, earlier>>
    /\ UNCHANGED engine_vars
    /\ UNCHANGED book_vars

\* risk_manager.py:41-85
CallCalcLots ==
    /\ pc = "risk"
    /\ \E inst \in RiskInstruments, stop_points \in RiskStopPoints,
          regime \in RiskRegimes, entry_price \in RiskPrices :
          call' = [op |-> "calc_lots",
                   args |-> [inst |-> inst, stop_points |-> stop_points,
                             regime |-> regime, entry_price |-> entry_price],
                   ret |-> calc_lots_for(inst, stop_points, regime, equity,
                                         positions, entry_price)]
    /\ UNCHANGED <<pc, n_bars, warmup_bars, max_positions, i, bar_close, bar_high,
                   bar_low, called_before, n_feeds, data, earlier>>
    /\ UNCHANGED engine_vars
    /\ UNCHANGED book_vars

RiskNext == CallCanOpenTrade \/ CallCalcLots

RiskSpec == RiskInit /\ [][RiskNext]_vars

\* The margin the open positions of the book hold, summed as C16 states it
RECURSIVE SummedMargin(_)
SummedMargin(poss) ==
    IF poss = <<>> THEN 0
    ELSE (Head(poss).lots * contract_size * Head(poss).open_price) \div leverage
         + SummedMargin(Tail(poss))

\* The four gates of C16 for a new trade of new_lots at new_price
CountGate == Len(positions) < max_positions
DrawdownGate ==
    ~(/\ day_start_equity > 0
      /\ equity < day_start_equity
      /\ (day_start_equity - equity) * max_daily_dd_den
            > max_daily_dd_num * day_start_equity)
SpreadGate(spread) == spread <= max_spread_points
MarginGate(new_lots, new_price) ==
    equity - SummedMargin(positions)
        >= (new_lots * contract_size * new_price) \div leverage

\* C16: can_open_trade returns true if and only if the four gates pass (count
\* below max_positions, daily drawdown within the limit, spread within the
\* limit, free margin at least the margin of the new trade), and the call
\* changes no state of the manager or of the positions.
C16_CanOpenTradeIsTheFourGates ==
    [][call'.op = "can_open_trade" =>
          /\ call'.ret <=> (/\ CountGate
                            /\ DrawdownGate
                            /\ SpreadGate(call'.args.spread)
                            /\ MarginGate(call'.args.new_lots,
                                          call'.args.new_price))
          /\ UNCHANGED <<day_start_equity, max_positions, positions, equity>>]_vars

\* C16 witness: can_open_trade has refused a trade on the margin alone: the
\* other three gates pass and the free margin is one short of the new margin.
C16_Witness ==
    /\ call.op = "can_open_trade"
    /\ ~call.ret
    /\ CountGate
    /\ DrawdownGate
    /\ SpreadGate(call.args.spread)
    /\ equity - SummedMargin(positions) + 1
         = (call.args.new_lots * contract_size * call.args.new_price) \div leverage

\* C17: calc_lots returns 0 whenever stop_points <= 0 or point_value <= 0;
\* otherwise, with min_lot <= max_lot, it returns 0 or a size from min_lot to
\* max_lot, and 0 whenever the free margin is <= 0 and a size of min_lot or
\* more needs a positive margin.
C17_CalcLotsRange ==
    call.op = "calc_lots" =>
        LET a == call.args
            free == equity - SummedMargin(positions)
        IN  /\ (a.stop_points <= 0 \/ a.inst.point_value <= 0) => call.ret = 0
            /\ a.inst.min_lot <= a.inst.max_lot
               => (call.ret = 0 \/ call.ret \in a.inst.min_lot..a.inst.max_lot)
            /\ (/\ free <= 0
                /\ (a.inst.min_lot * contract_size * a.entry_price) \div leverage > 0)
               => call.ret = 0

\* C17 witness: calc_lots has shrunk the size to the free margin and returned
\* it: in the NORMAL regime the risk and max_lot allow one lot more than the
\* result, the free margin does not, and the result is not 0.
C17_Witness ==
    /\ call.op = "calc_lots"
    /\ call.args.regime = "NORMAL"
    /\ call.ret > 0
    /\ call.ret + 1 <= call.args.inst.max_lot
    /\ equity * risk_per_trade_num
         >= (call.ret + 1) * risk_per_trade_den * call.args.stop_points
              * call.args.inst.point_value
    /\ ((call.ret + 1) * contract_size * call.args.entry_price) \div leverage
         > equity - SummedMargin(positions)

-----------------------------------------------------------------------------
(* SignalEngine.get_entry_signal called directly on a drawn engine state.   *)

SignalSlopes == {0 - 1, 0, 1}
SignalHursts == {hurst_threshold, hurst_threshold + 1}
SignalPrices == {97, 98, 100, 102, 103}

\* signal_engine.py:14-35: an engine that has not seen a bar holds no sample
\* (the filter is updated first on every bar, the Hurst value is computed
\* from the 20th sample on); otherwise the filter is initialized
SignalInit ==
    /\ pc = "signal"
    /\ n_bars = full_warmup + MaxTradeBars
    /\ warmup_bars = full_warmup
    /\ max_positions \in 0..MaxPositionsCfg
    /\ i = 0
    /\ bar_close = 100
    /\ bar_high = 100
    /\ bar_low = 100
    /\ today = NoDay
    /\ last_day = NoDay
    /\ kf_level = 100
    /\ kf_slope \in SignalSlopes
    /\ kf_err \in Errs
    /\ \/ /\ kf_initialized = FALSE
          /\ hurst_count = 0
          /\ hurst = InitialHurst
       \/ /\ kf_initialized = TRUE
          /\ hurst_count = HurstMinSamples - 1
          /\ hurst = InitialHurst
       \/ /\ kf_initialized = TRUE
          /\ hurst_count = HurstMinSamples
          /\ hurst \in SignalHursts
    /\ vol_ret_count = 0
    /\ vol_percentile = InitialPercentile
    /\ day_start_equity = initial_equity
    /\ equity = initial_equity
    /\ realized_pnl = 0
    /\ positions = <<>>
    /\ closed_trades = <<>>
    /\ next_ticket = 1
    /\ bars_since_close = InitialBarsSinceClose
    /\ entry_this_bar = FALSE
    /\ entry_signal = "NONE"
    /\ result = <<>>
    /\ called_before = FALSE
    /\ data = <<>>
    /\ earlier = NotCompared
    /\ call = NoCall
    /\ n_feeds = 0
    /\ engine_as_configured

\* signal_engine.py:37-54
CallGetEntrySignal ==
    /\ pc = "signal"
    /\ \E current_price \in SignalPrices :
          call' = [op |-> "get_entry_signal",
                   args |-> [current_price |-> current_price],
                   ret |-> get_entry_signal(current_price)]
    /\ UNCHANGED <<pc, n_bars, warmup_bars, max_positions, i, bar_close, bar_high,
                   bar_low, called_before, n_feeds, data, earlier>>
    /\ UNCHANGED engine_vars
    /\ UNCHANGED book_vars

SignalSpec == SignalInit /\ [][CallGetEntrySignal]_vars

\* The BUY and SELL conditions of C18 at a price
BuyCondition(price) ==
    /\ kf_slope > 0
    /\ hurst > hurst_threshold
    /\ price > kf_level + kf_conf_band * kf_err
SellCondition(price) ==
    /\ kf_slope < 0
    /\ hurst > hurst_threshold
    /\ price < kf_level - kf_conf_band * kf_err

\* C18: get_entry_signal returns NONE whenever the filter is uninitialized or
\* the Hurst estimator holds fewer than 20 samples; otherwise BUY iff slope >
\* 0, Hurst > threshold and price > upper band, SELL iff slope < 0, Hurst >
\* threshold and price < lower band, NONE in every other case; the two
\* conditions never hold together.
C18_EntrySignalTable ==
    call.op = "get_entry_signal" =>
        LET price == call.args.current_price
        IN  /\ (~kf_initialized \/ hurst_count < HurstMinSamples)
               => call.ret = "NONE"
            /\ (kf_initialized /\ hurst_count >= HurstMinSamples)
               => /\ call.ret = "BUY" <=> BuyCondition(price)
                  /\ call.ret = "SELL" <=> SellCondition(price)
                  /\ call.ret = "NONE"
                        <=> (~BuyCondition(price) /\ ~SellCondition(price))
            /\ ~(BuyCondition(price) /\ SellCondition(price))

\* C18 witness: get_entry_signal has returned SELL.
C18_Witness ==
    /\ call.op = "get_entry_signal"
    /\ call.ret = "SELL"
    /\ SellCondition(call.args.current_price)

-----------------------------------------------------------------------------
(* The run on a flat series: every bar has the close of bar 0 and           *)
(* high = low = close.                                                      *)

\* The bar fed by this step is flat at the close of the bar before
ConstantBar ==
    /\ bar_close' = bar_close
    /\ pc = "begin" => (bar_high' = bar_close' /\ bar_low' = bar_close')

\* backtester.py:75-76
ConstWarmupBar == WarmupBar /\ ConstantBar

\* backtester.py:80-98
ConstBeginBar == BeginBar /\ ConstantBar

ConstNext ==
    \/ FirstBar
    \/ ConstWarmupBar
    \/ ConstBeginBar
    \/ StopLossCheck
    \/ SignalExit
    \/ EntryDecision
    \/ TrailingStop
    \/ UpdateEquity
    \/ CloseRemaining

ConstSpec == Init /\ [][ConstNext]_vars

\* C19: on a series whose close is the same positive constant on every bar,
\* with high = low = close, the filter slope is 0 after every update, no
\* entry signal is given on any trading bar, the trade log stays empty and
\* every recorded equity is initial_equity.
C19_FlatSeriesNoTrade ==
    /\ kf_slope = 0
    /\ pc \in {"stoploss", "sigexit", "entry", "trail", "equity"}
          => get_entry_signal(bar_close) = "NONE"
    /\ entry_signal = "NONE"
    /\ positions = <<>>
    /\ closed_trades = <<>>
    /\ equity = initial_equity
    /\ \A k \in 1..Len(result) :
          /\ result[k].equity = initial_equity
          /\ result[k].signal = "NONE"

\* C19 witness: the run on a flat series has returned after several trading
\* bars, with room for a position and the Hurst value above the entry
\* threshold on the last bar.
C19_Witness ==
    /\ pc = "done"
    /\ Len(result) = MaxTradeBars
    /\ max_positions >= 1
    /\ hurst_count >= HurstMinSamples
    /\ hurst > hurst_threshold

-----------------------------------------------------------------------------
(* run called again on the same Backtester, with the same bars.             *)

\* Variant of ticket_of_new_call: the counter carried over from the call before
ticket_carried_over == next_ticket

\* backtester.py:57: next_ticket is a local of run, set at every call
ticket_of_new_call == 1

\* backtester.py:42-67: the engine, the risk manager and the locals of run as
\* a call sets them before the first bar
locals_as_constructed ==
    /\ i' = 0
    /\ bar_close' = 0
    /\ bar_high' = 0
    /\ bar_low' = 0
    /\ today' = NoDay
    /\ last_day' = NoDay
    /\ kf_initialized' = FALSE
    /\ kf_level' = 0
    /\ kf_slope' = 0
    /\ kf_err' = 1
    /\ hurst_count' = 0
    /\ hurst' = InitialHurst
    /\ vol_ret_count' = 0
    /\ vol_percentile' = InitialPercentile
    /\ day_start_equity' = initial_equity
    /\ equity' = initial_equity
    /\ realized_pnl' = 0
    /\ positions' = <<>>
    /\ closed_trades' = <<>>
    /\ next_ticket' = ticket_of_new_call
    /\ bars_since_close' = InitialBarsSinceClose
    /\ entry_this_bar' = FALSE
    /\ entry_signal' = "NONE"
    /\ result' = <<>>
    /\ call' = NoCall
    /\ n_feeds' = 0
    /\ kf_P' = identity2
    /\ kf_Q' = diagonal2(kf_process_noise)
    /\ kf_R' = kf_observ_noise
    /\ hurst_returns' = zeros(hurst_period)
    /\ hurst_head' = 0
    /\ vol_returns' = zeros(vol_period)
    /\ vol_ret_head' = 0
    /\ vol_history' = zeros(vol_hist_period)
    /\ vol_head' = 0
    /\ vol_count' = 0
    /\ vol_current' = 0

\* backtester.py:34-71: the second call.  The Backtester keeps its two
\* configurations and nothing else (backtester.py:30-32); the call builds a
\* new SignalEngine (line 42) and a new RiskManager (line 50) and sets its
\* locals (lines 53-67) as the first call did.
RunAgain ==
    /\ pc = "done"
    /\ pc' = "first_bar"
    /\ called_before' = TRUE
    /\ locals_as_constructed
    /\ UNCHANGED <<data, earlier>>
    /\ UNCHANGED <<n_bars, warmup_bars, max_positions>>

TwiceNext == Next \/ RunAgain

TwiceSpec == Init /\ [][TwiceNext]_vars

-----------------------------------------------------------------------------
(* The three estimators in full: the buffers, the heads, the counts and the *)
(* covariance, computed on the integer grid.  Prices are points, a          *)
(* covariance is points squared, a log-return is in hundredths, a           *)
(* volatility is held as its variance times VolScale (the square root is    *)
(* monotone, so the comparisons of volatilities are those of variances).    *)

\* math.log on the prices of EnginePrices, in hundredths
ln100(x) == CASE x = 1000 -> 691 [] x = 1020 -> 693 [] x = 2000 -> 760

\* hurst_exponent.py:28, volatility_regime.py:42: math.log(close / prev_close)
log_return(close, prev_close) == ln100(close) - ln100(prev_close)

\* math.sqrt on the grid
isqrt(n) == CHOOSE r \in 0..n : r * r <= n /\ (r + 1) * (r + 1) > n

\* kalman_filter.py:99-100
estimation_error_of(P) == isqrt(Abs(P[1][1]))

\* kalman_filter.py:24-28
KalmanFilter_init(process_noise, observ_noise) ==
    /\ kf_Q' = diagonal2(process_noise)
    /\ kf_R' = observ_noise
    /\ kf_initialized' = FALSE
    /\ UNCHANGED <<kf_level, kf_slope, kf_P, kf_err>>

\* kalman_filter.py:35-39: price_scale = price * 0.01, P00 its square, P11 a
\* hundredth of it
first_P(price) ==
    LET price_scale == first_estimation_error(price)
    IN  <<<<price_scale * price_scale, 0>>,
          <<0, (price_scale * price_scale) \div 100>>>>

\* kalman_filter.py:48-59: P_pred = F * P * F' + Q
P_pred(P, Q) ==
    LET FP00 == P[1][1] + P[2][1]
        FP01 == P[1][2] + P[2][2]
        FP10 == P[2][1]
        FP11 == P[2][2]
    IN  <<<<FP00 + FP01 + Q[1][1], FP01 + Q[1][2]>>,
          <<FP10 + FP11 + Q[2][1], FP11 + Q[2][2]>>>>

\* Variant of is_outlier: no innovation is rejected
is_outlier_never(y, S) == FALSE

\* kalman_filter.py:68-69: abs(y) > 3.0 * sqrt(S)
is_outlier(y, S) == y * y > 9 * S

\* kalman_filter.py:30-91
KalmanFilter_update(price) ==
    IF ~kf_initialized
    THEN /\ kf_level' = price
         /\ kf_slope' = 0
         /\ kf_P' = first_P(price)
         /\ kf_err' = estimation_error_of(kf_P')
         /\ kf_initialized' = TRUE
         /\ UNCHANGED <<kf_Q, kf_R>>
    ELSE LET x_pred0 == kf_level + kf_slope
             x_pred1 == kf_slope
             Pp == P_pred(kf_P, kf_Q)
             y == price - x_pred0
             S == Pp[1][1] + kf_R
         IN  /\ IF is_outlier(y, S)
                THEN /\ kf_level' = x_pred0
                     /\ kf_slope' = x_pred1
                     /\ kf_P' = Pp
                ELSE /\ kf_level' = x_pred0 + (Pp[1][1] * y) \div S
                     /\ kf_slope' = x_pred1 + (Pp[2][1] * y) \div S
                     /\ kf_P' = <<<<Pp[1][1] - (Pp[1][1] * Pp[1][1]) \div S,
                                    Pp[1][2] - (Pp[1][1] * Pp[1][2]) \div S>>,
                                  <<Pp[2][1] - (Pp[2][1] * Pp[1][1]) \div S,
                                    Pp[2][2] - (Pp[2][1] * Pp[1][2]) \div S>>>>
             /\ kf_err' = estimation_error_of(kf_P')
             /\ UNCHANGED <<kf_initialized, kf_Q, kf_R>>

\* hurst_exponent.py:17-22
HurstExponent_init(period) ==
    /\ hurst_returns' = zeros(period)
    /\ hurst_head' = 0
    /\ hurst_count' = 0
    /\ hurst' = InitialHurst

\* Variant of ring_head: the head left where it is
ring_head_stuck(head, period) == head

\* hurst_exponent.py:35, volatility_regime.py:50, 75: the head after a write
ring_head(head, period) == (head + 1) % period

\* hurst_exponent.py:24-38.  The capacity _period is the length of the buffer
\* init has allocated.
HurstExponent_update(close, prev_close) ==
    IF prev_close <= 0 \/ close <= 0
    THEN UNCHANGED <<hurst_returns, hurst_head, hurst_count, hurst>>
    ELSE LET ret == log_return(close, prev_close)
             period == Len(hurst_returns)
         IN  /\ IF hurst_count < period
                THEN /\ hurst_returns' =
                            [hurst_returns EXCEPT ![hurst_count + 1] = ret]
                     /\ hurst_count' = hurst_count + 1
                     /\ UNCHANGED hurst_head
                ELSE /\ hurst_returns' =
                            [hurst_returns EXCEPT ![hurst_head + 1] = ret]
                     /\ hurst_head' = ring_head(hurst_head, period)
                     /\ UNCHANGED hurst_count
             /\ IF hurst_count' >= HurstMinSamples
                THEN hurst' \in Hursts
                ELSE UNCHANGED hurst

\* hurst_exponent.py:40-47
HurstExponent_linearize(returns, head, count) ==
    LET period == Len(returns)
        data_len == Min(count, period)
    IN  IF count < period
        THEN SubSeq(returns, 1, data_len)
        ELSE [k \in 1..data_len |-> returns[((head + k - 1) % period) + 1]]

\* volatility_regime.py:26-36
VolatilityRegime_init(period, hist_period) ==
    /\ vol_returns' = zeros(period)
    /\ vol_ret_head' = 0
    /\ vol_ret_count' = 0
    /\ vol_history' = zeros(hist_period)
    /\ vol_head' = 0
    /\ vol_count' = 0
    /\ vol_current' = 0
    /\ vol_percentile' = InitialPercentile

\* The sum of the first n values of a buffer
RECURSIVE sum_of(_, _)
sum_of(buf, n) == IF n = 0 THEN 0 ELSE buf[n] + sum_of(buf, n - 1)

\* The variances of 2 and of 3 values brought to one denominator
VolScale == 36

\* volatility_regime.py:54-66: the population variance of the first length
\* returns, times VolScale
variance_of(returns, length) ==
    LET total == sum_of(returns, length)
        squares == sum_of([k \in 1..Len(returns) |-> returns[k] * returns[k]],
                          length)
    IN  (length * squares - total * total) * (VolScale \div (length * length))

\* volatility_regime.py:79-83
count_below(history, length, current) ==
    Cardinality({k \in 1..length : history[k] < current})

\* volatility_regime.py:78
percentile_due(count) == count >= 2

\* volatility_regime.py:38-84
VolatilityRegime_update(close, prev_close) ==
    IF prev_close <= 0 \/ close <= 0
    THEN UNCHANGED <<vol_returns, vol_ret_head, vol_ret_count, vol_history,
                     vol_head, vol_count, vol_current, vol_percentile>>
    ELSE LET ret == log_return(close, prev_close)
             period == Len(vol_returns)
             hist_period == Len(vol_history)
         IN  /\ IF vol_ret_count < period
                THEN /\ vol_returns' =
                            [vol_returns EXCEPT ![vol_ret_count + 1] = ret]
                     /\ vol_ret_count' = vol_ret_count + 1
                     /\ UNCHANGED vol_ret_head
                ELSE /\ vol_returns' =
                            [vol_returns EXCEPT ![vol_ret_head + 1] = ret]
                     /\ vol_ret_head' = ring_head(vol_ret_head, period)
                     /\ UNCHANGED vol_ret_count
             /\ vol_current' =
                    IF vol_ret_count' >= 2
                    THEN variance_of(vol_returns', Min(vol_ret_count', period))
                    ELSE vol_current
             /\ IF vol_current' > 0
                THEN /\ IF vol_count < hist_period
                        THEN /\ vol_history' =
                                    [vol_history EXCEPT ![vol_count + 1] = vol_current']
                             /\ vol_count' = vol_count + 1
                             /\ UNCHANGED vol_head
                        ELSE /\ vol_history' =
                                    [vol_history EXCEPT ![vol_head + 1] = vol_current']
                             /\ vol_head' = ring_head(vol_head, hist_period)
                             /\ UNCHANGED vol_count
                     /\ IF percentile_due(vol_count')
                        THEN LET length == Min(vol_count', hist_period)
                             IN  vol_percentile' =
                                    (100 * count_below(vol_history', length,
                                                       vol_current')) \div length
                        ELSE UNCHANGED vol_percentile
                ELSE UNCHANGED <<vol_history, vol_head, vol_count, vol_percentile>>

\* signal_engine.py:21-30
SignalEngine_init(process_noise, observ_noise, h_period, v_period, v_hist_period) ==
    /\ KalmanFilter_init(process_noise, observ_noise)
    /\ HurstExponent_init(h_period)
    /\ VolatilityRegime_init(v_period, v_hist_period)

\* signal_engine.py:32-35
SignalEngine_on_new_bar(close, prev_close) ==
    /\ KalmanFilter_update(close)
    /\ HurstExponent_update(close, prev_close)
    /\ VolatilityRegime_update(close, prev_close)


-----------------------------------------------------------------------------
(* A SignalEngine fed a series bar by bar, as lines 74-76 of run feed it,   *)
(* on series that hold a close of 0; init may be called again on the used   *)
(* engine.                                                                  *)

MaxFeeds == 5                   \* bars fed between two calls of init

EnginePrices == {0, 1000, 1020, 2000}
HurstCapacities == {1, 3}       \* hurst_period
VolCapacities == {2, 3}         \* vol_period
VolHistCapacities == {2}        \* vol_hist_period

\* SignalEngine() and init (signal_engine.py:13-30) with small capacities
EngineInit ==
    /\ pc = "engine"
    /\ n_bars = MaxFeeds
    /\ warmup_bars = MaxFeeds
    /\ max_positions = 0
    /\ i = 0
    /\ bar_close = 0
    /\ bar_high = 0
    /\ bar_low = 0
    /\ today = NoDay
    /\ last_day = NoDay
    /\ kf_initialized = FALSE
    /\ kf_level = 0
    /\ kf_slope = 0
    /\ kf_err = 1
    /\ kf_P = identity2
    /\ kf_Q = diagonal2(kf_process_noise)
    /\ kf_R = kf_observ_noise
    /\ hurst_count = 0
    /\ hurst = InitialHurst
    /\ \E p \in HurstCapacities : hurst_returns = zeros(p)
    /\ hurst_head = 0
    /\ vol_ret_count = 0
    /\ vol_percentile = InitialPercentile
    /\ \E p \in VolCapacities : vol_returns = zeros(p)
    /\ vol_ret_head = 0
    /\ \E p \in VolHistCapacities : vol_history = zeros(p)
    /\ vol_head = 0
    /\ vol_count = 0
    /\ vol_current = 0
    /\ day_start_equity = initial_equity
    /\ equity = initial_equity
    /\ realized_pnl = 0
    /\ positions = <<>>
    /\ closed_trades = <<>>
    /\ next_ticket = 1
    /\ bars_since_close = InitialBarsSinceClose
    /\ entry_this_bar = FALSE
    /\ entry_signal = "NONE"
    /\ result = <<>>
    /\ called_before = FALSE
    /\ data = <<>>
    /\ earlier = NotCompared
    /\ call = NoCall
    /\ n_feeds = 0

\* What a call on the engine leaves alone
engine_call_frame ==
    /\ UNCHANGED <<pc, n_bars, warmup_bars, max_positions, i, bar_high, bar_low,
                   today, last_day, called_before, data, earlier>>
    /\ UNCHANGED <<equity, realized_pnl, positions, closed_trades, next_ticket,
                   bars_since_close, entry_this_bar, entry_signal, result,
                   day_start_equity>>

\* backtester.py:74-76: on_new_bar(closes[0], closes[0]), then
\* on_new_bar(closes[i], closes[i - 1])
CallOnNewBar ==
    /\ pc = "engine"
    /\ n_feeds < MaxFeeds
    /\ \E c \in EnginePrices :
          LET prev_close == IF n_feeds = 0 THEN c ELSE bar_close
          IN  /\ SignalEngine_on_new_bar(c, prev_close)
              /\ call' = [op |-> "on_new_bar",
                          args |-> [index |-> n_feeds, close |-> c,
                                    prev_close |-> prev_close],
                          ret |-> <<>>]
              /\ bar_close' = c
    /\ n_feeds' = n_feeds + 1
    /\ engine_call_frame

\* signal_engine.py:21-30, called on an engine that has been fed
CallInit ==
    /\ pc = "engine"
    /\ n_feeds > 0
    /\ \E h \in HurstCapacities, v \in VolCapacities, vh \in VolHistCapacities :
          /\ SignalEngine_init(kf_process_noise, kf_observ_noise, h, v, vh)
          /\ call' = [op |-> "init",
                      args |-> [hurst_period |-> h, vol_period |-> v,
                                vol_hist_period |-> vh],
                      ret |-> <<>>]
    /\ n_feeds' = 0
    /\ bar_close' = 0
    /\ engine_call_frame

\* hurst_exponent.py:40-47, called on the engine as it stands
CallLinearize ==
    /\ pc = "engine"
    /\ call.op # "_linearize"
    /\ call' = [op |-> "_linearize",
                args |-> <<>>,
                ret |-> HurstExponent_linearize(hurst_returns, hurst_head,
                                                hurst_count)]
    /\ UNCHANGED <<bar_close, n_feeds>>
    /\ UNCHANGED engine_vars
    /\ engine_call_frame

EngineNext == CallOnNewBar \/ CallInit \/ CallLinearize

EngineSpec == EngineInit /\ [][EngineNext]_vars


\* The step is a call of on_new_bar
Fed == n_feeds' = n_feeds + 1

\* The step is a call of init on an engine that has been fed
Reinitialized == n_feeds > 0 /\ n_feeds' = 0

\* C21: an update whose close or previous close is <= 0 leaves the whole state
\* of each of the three estimators (Kalman filter, Hurst estimator, volatility
\* classifier) as it was.
C21_NonPositivePricesIgnored ==
    [][(Fed /\ (call'.args.close <= 0 \/ call'.args.prev_close <= 0)) =>
          /\ UNCHANGED <<kf_initialized, kf_level, kf_slope, kf_err, kf_P, kf_Q,
                         kf_R>>
          /\ UNCHANGED <<hurst_returns, hurst_head, hurst_count, hurst>>
          /\ UNCHANGED <<vol_returns, vol_ret_head, vol_ret_count, vol_history,
                         vol_head, vol_count, vol_current, vol_percentile>>]_vars

\* C22: after every update that pushes a value into the volatility history,
\* from the first push on, the percentile is the number of stored history
\* values strictly below current_vol divided by the number of stored values.
C22_PercentileAfterEveryPush ==
    [][(Fed /\ (vol_count' # vol_count \/ vol_head' # vol_head)) =>
          LET stored == Min(vol_count', Len(vol_history'))
              below == {k \in 1..stored : vol_history'[k] < vol_current'}
          IN  vol_percentile' = (100 * Cardinality(below)) \div stored]_vars

\* C23: init, called after any updates, leaves the filter uninitialized with a
\* diagonal covariance, and the accessors then read what they read on a filter
\* that was never updated: level 0, slope 0, estimation error 1.
C23_InitResetsTheFilter ==
    [][Reinitialized =>
          /\ ~kf_initialized'
          /\ kf_P'[1][2] = 0 /\ kf_P'[2][1] = 0
          /\ kf_level' = 0 /\ kf_slope' = 0 /\ kf_err' = 1]_vars

\* C24: on an update of an initialized filter whose innovation price - (level
\* + slope) is beyond 3 * sqrt(P00_pred + R), the new level is the old level +
\* the old slope, the slope stays, and the covariance becomes the predicted
\* covariance F P F' + Q: no gain correction is applied.
C24_OutlierOnlyPredicts ==
    [][(Fed /\ kf_initialized) =>
          LET y == call'.args.close - (kf_level + kf_slope)
              P00_pred == kf_P[1][1] + kf_P[2][1] + kf_P[1][2] + kf_P[2][2]
                              + kf_Q[1][1]
          IN  y * y > 9 * (P00_pred + kf_R) =>
                 /\ kf_level' = kf_level + kf_slope
                 /\ kf_slope' = kf_slope
                 /\ kf_P' = <<<<P00_pred, kf_P[1][2] + kf_P[2][2] + kf_Q[1][2]>>,
                              <<kf_P[2][1] + kf_P[2][2] + kf_Q[2][1],
                                kf_P[2][2] + kf_Q[2][2]>>>>]_vars

\* C24 witness: the last update of an initialized filter, which had a slope,
\* met a close more than 3 sigma away and left the level on the prediction.
C24_Witness ==
    /\ call.op = "on_new_bar"
    /\ call.args.index >= 2
    /\ kf_slope # 0
    /\ (call.args.close - kf_level) * (call.args.close - kf_level)
           > 9 * (kf_P[1][1] + kf_R)

\* C30: _linearize gives the most recent min(k, p) log-returns of the k valid
\* updates, in the order they arrived: it starts empty, a valid update appends
\* its return and drops the oldest once p are held, any other update leaves
\* it; the sample count never exceeds p, the head stays in 0 .. p - 1 and is 0
\* until the buffer is full.
C30_LinearizeIsTheLastReturns ==
    [][LET p == Len(hurst_returns')
           before == HurstExponent_linearize(hurst_returns, hurst_head, hurst_count)
           after == HurstExponent_linearize(hurst_returns', hurst_head',
                                            hurst_count')
       IN  /\ Reinitialized => after = <<>>
           /\ Fed =>
                 LET a == call'.args
                 IN  IF a.close > 0 /\ a.prev_close > 0
                     THEN LET ret == ln100(a.close) - ln100(a.prev_close)
                          IN  after = IF Len(before) < p
                                      THEN Append(before, ret)
                                      ELSE Append(Tail(before), ret)
                     ELSE after = before
           /\ hurst_count' <= p
           /\ hurst_head' >= 0 /\ hurst_head' < p
           /\ hurst_count' < p => hurst_head' = 0]_vars

\* C30 witness: _linearize has been called on a buffer of capacity 3 that has
\* wrapped around, and has returned three returns, the first and the last
\* different.
C30_Witness ==
    /\ call.op = "_linearize"
    /\ Len(hurst_returns) = 3
    /\ hurst_head = 1
    /\ Len(call.ret) = 3
    /\ call.ret[1] # call.ret[3]


-----------------------------------------------------------------------------
(* The run under its scheduling: run is one synchronous call, so a step     *)
(* that can be taken is taken.                                              *)

LiveSpec == Spec /\ WF_vars(Next)

\* C25: on n_bars >= 2 bars the run terminates: it reaches its return after
\* warmup_bars - 1 iterations of the warmup loop and exactly n_bars -
\* warmup_bars iterations of the main loop (one record and one feed each), the
\* force-close step being the last step before the return.
C25_RunTerminates ==
    (n_bars >= 2) =>
        <>(/\ pc = "done"
           /\ Len(result) = n_bars - warmup_bars
           /\ n_feeds - 1 - Len(result) = warmup_bars - 1)

\* C25 witness: a run on more bars than the warmup has returned, with one
\* record per main-loop iteration.
C25_Witness ==
    /\ pc = "done"
    /\ n_bars > full_warmup
    /\ warmup_bars = full_warmup
    /\ Len(result) = MaxTradeBars
    /\ n_feeds = n_bars


\* The steps of a bar that take the trading decisions
Deciding == {"stoploss", "sigexit", "entry", "trail", "equity"}

\* C26: on_new_bar is called exactly once for each bar index 0 .. n_bars - 1,
\* in ascending order (the k-th call, counted from 0, feeds bar k), with
\* (close[0], close[0]) for bar 0 and (close[i], close[i - 1]) after it; when
\* the decisions of bar i are taken exactly the bars 0 .. i have been fed, and
\* n_bars bars have been fed when the run returns.
C26_EachBarFedOnceInOrder ==
    [][/\ Fed =>
             LET a == call'.args
             IN  /\ a.index = n_feeds
                 /\ a.close = bar_close'
                 /\ a.prev_close = IF a.index = 0 THEN a.close ELSE bar_close
       /\ pc' \in Deciding => n_feeds' = i' + 1
       /\ pc' = "done" => n_feeds' = n_bars]_vars


\* C27: the stop-loss check of bar i uses the stops as they stood at the end
\* of bar i - 1: the positions enter the bar as the bar before left them, a
\* stop-loss trade is made only by the stop-loss step, at the stop the
\* position had when the step began and which the bar touches; the trailing
\* step and the steps after it close nothing, so that a stop trailed on bar i
\* can close its position on bar i + 1 at the earliest; and a trade closed by
\* stop-loss or by signal was opened on an earlier bar.
C27_StopCheckUsesLastBarsStops ==
    [][/\ pc = "begin" => positions' = positions
       /\ \A m \in (Len(closed_trades) + 1)..Len(closed_trades') :
             LET t == closed_trades'[m]
             IN  /\ t.close_reason = "stop_loss" =>
                       /\ pc = "stoploss"
                       /\ \E k \in 1..Len(positions) :
                             /\ positions[k].ticket = t.ticket
                             /\ t.close_price = positions[k].stop_loss
                             /\ Touched(positions[k])
                 /\ t.close_reason \in {"stop_loss", "signal"} =>
                       t.exit_bar_index > t.entry_bar_index
       /\ pc \in {"trail", "equity"} =>
             /\ closed_trades' = closed_trades
             /\ Len(positions') = Len(positions)]_vars

\* C27 witness: a long position was closed by stop-loss at a price above its
\* entry price, a stop only the trailing step of an earlier bar can have set,
\* three bars after it was opened.
C27_Witness ==
    \E m \in 1..Len(closed_trades) :
        /\ closed_trades[m].close_reason = "stop_loss"
        /\ closed_trades[m].type = "BUY"
        /\ closed_trades[m].close_price >= closed_trades[m].open_price
        /\ closed_trades[m].exit_bar_index = closed_trades[m].entry_bar_index + 3


\* C28: on the first trading bar and on every trading bar whose date differs
\* from that of the trading bar before, the day-start equity is set at the
\* start of the bar, before any gate is asked, to the equity recorded at the
\* end of the bar before (initial_equity on the first trading bar); on every
\* other bar, and in every other step, it is unchanged.
C28_DayStartEquityAtDateChange ==
    [][IF pc = "begin"
       THEN IF result = <<>>
            THEN day_start_equity' = initial_equity
            ELSE IF today' # Last(result).date
                 THEN day_start_equity' = Last(result).equity
                 ELSE day_start_equity' = day_start_equity
       ELSE day_start_equity' = day_start_equity]_vars

\* C28 witness: a bar has begun on a new date after a bar that ended with an
\* equity other than that of the day before, and the day-start equity is the
\* equity of that bar.
C28_Witness ==
    /\ pc = "stoploss"
    /\ Len(result) >= 2
    /\ today # Last(result).date
    /\ Last(result).equity # initial_equity
    /\ day_start_equity = Last(result).equity

\* C29: the signal recorded for a trading bar is BUY (SELL) exactly when a
\* BUY (SELL) position was opened on that bar, and NONE on every other bar,
\* also when an entry signal was given and reversal protection, the cooldown,
\* the sizing or the gate kept it from opening a position.
C29_RecordedSignalIsTheEntry ==
    \A k \in 1..Len(result) :
        LET opened == {positions[j].type : j \in
                          {j \in 1..Len(positions) :
                              positions[j].entry_bar_index = BarOfRecord(k)}}
                      \cup
                      {closed_trades[j].type : j \in
                          {j \in 1..Len(closed_trades) :
                              closed_trades[j].entry_bar_index = BarOfRecord(k)}}
        IN  /\ \A type \in {"BUY", "SELL"} :
                  result[k].signal = type <=> type \in opened
            /\ result[k].signal = "NONE" <=> opened = {}

\* C29 witness: a bar is about to be recorded whose entry signal was given and
\* passed reversal protection and the cooldown but opened nothing (the gate
\* or the sizing refused it), after a bar recorded with BUY for the position
\* it opened, which is still open.
C29_Witness ==
    /\ pc = "equity"
    /\ entry_signal # "NONE"
    /\ ~entry_this_bar
    /\ \E k \in 1..Len(result) :
          /\ result[k].signal = "BUY"
          /\ \E j \in 1..Len(positions) :
                /\ positions[j].type = "BUY"
                /\ positions[j].entry_bar_index = BarOfRecord(k)


-----------------------------------------------------------------------------
\* The stop of a new position, for every configuration: the entry step up to
\* the stop distance (backtester.py:178-203) on an engine that is ready, with
\* kf_conf_band, spread_points and slippage_points drawn for each call.

StopLevel == 100
StopCloses == {93, 97, 99, 100, 101, 103, 107}
StopErrs == {0, 1, 3}
StopSlopes == {0 - 1, 0, 1}
StopConfBands == {0, 1, 2}
StopSpreadPoints == {0, 2, 4}
StopSlippagePoints == {0, 1}

StopInit ==
    /\ pc = "entry_stop"
    /\ n_bars = full_warmup + 1
    /\ warmup_bars = full_warmup
    /\ max_positions = 1
    /\ i = full_warmup
    /\ bar_close = StopLevel
    /\ bar_high = StopLevel
    /\ bar_low = StopLevel
    /\ today = 0
    /\ last_day = 0
    /\ kf_initialized = TRUE
    /\ kf_level = StopLevel
    /\ kf_slope \in StopSlopes
    /\ kf_err \in StopErrs
    /\ hurst_count = hurst_period
    /\ hurst \in Hursts
    /\ vol_ret_count = vol_period
    /\ vol_percentile = InitialPercentile
    /\ engine_as_configured
    /\ day_start_equity = initial_equity
    /\ equity = initial_equity
    /\ realized_pnl = 0
    /\ positions = <<>>
    /\ closed_trades = <<>>
    /\ next_ticket = 1
    /\ bars_since_close = InitialBarsSinceClose
    /\ entry_this_bar = FALSE
    /\ entry_signal = "NONE"
    /\ result = <<>>
    /\ called_before = FALSE
    /\ data = <<>>
    /\ earlier = NotCompared
    /\ call = NoCall
    /\ n_feeds = 0

\* backtester.py:178-203: the entry signal, the stop, the entry price and the
\* stop distance handed to calc_lots
CallEntryStop ==
    /\ pc = "entry_stop"
    /\ \E c \in StopCloses, band \in StopConfBands,
          spread \in StopSpreadPoints, slip \in StopSlippagePoints :
          LET sig == cooldown(
                        reverse_protection(
                            entry_signal_between(c,
                                                 upper_band(kf_level, kf_err, band),
                                                 lower_band(kf_level, kf_err, band)),
                            positions),
                        bars_since_close)
              sl == get_stop_loss(sig, kf_level, kf_err, band)
              entry_price == entry_price_with(sig, c, (spread * point) \div 2,
                                              slip * point)
              stop_points == get_stop_points(entry_price, sl, point)
          IN  /\ call' = [op |-> "entry_stop",
                          args |-> [close |-> c, kf_conf_band |-> band,
                                    spread_points |-> spread,
                                    slippage_points |-> slip],
                          ret |-> IF sig = "NONE"
                                  THEN [signal |-> sig, stop_loss |-> 0,
                                        open_price |-> 0, stop_points |-> 0]
                                  ELSE [signal |-> sig, stop_loss |-> sl,
                                        open_price |-> entry_price,
                                        stop_points |-> stop_points]]
              /\ bar_close' = c
    /\ UNCHANGED <<n_feeds, called_before, data, earlier>>
    /\ UNCHANGED engine_vars
    /\ UNCHANGED <<pc, n_bars, warmup_bars, max_positions, i, bar_high, bar_low,
                   today, last_day, equity, realized_pnl, positions,
                   closed_trades, next_ticket, bars_since_close, entry_this_bar,
                   entry_signal, result, day_start_equity>>

StopSpec == StopInit /\ [][CallEntryStop]_vars

\* C31: for every kf_conf_band >= 0, spread_points >= 0 and slippage_points
\* >= 0, the stop of a surviving BUY signal is strictly below the entry price
\* and that of a surviving SELL signal strictly above it, so the stop
\* distance handed to calc_lots is > 0.
C31_StopOnTheLosingSide ==
    call.op = "entry_stop" =>
        /\ call.ret.signal = "BUY" => call.ret.stop_loss < call.ret.open_price
        /\ call.ret.signal = "SELL" => call.ret.stop_loss > call.ret.open_price
        /\ call.ret.signal # "NONE" => call.ret.stop_points > 0

\* C31 witness: a SELL signal survives with kf_conf_band, spread_points and
\* slippage_points all 0, one point below the level: the stop is the level,
\* one point above the entry price.
C31_Witness ==
    /\ call.op = "entry_stop"
    /\ call.ret.signal = "SELL"
    /\ call.args.kf_conf_band = 0
    /\ call.args.spread_points = 0
    /\ call.args.slippage_points = 0
    /\ kf_err > 0
    /\ call.ret.stop_points = 1


\* C32: when run returns, the last value of the equity curve is
\* initial_equity plus the sum of the profits of all the trades of the trade
\* log, the end_of_data trades included.
C32_FinalEquityIsTheTradeLog ==
    (pc = "done" /\ result # <<>>) =>
        Last(result).equity = initial_equity + SumOfProfits(closed_trades)


\* C33: every trade closed with reason stop_loss has a close_price within the
\* [low, high] range of the bar that closes it, also when the trailing step of
\* an earlier bar moved the stop.
C33_StopFillWithinTheBar ==
    [][\A m \in (Len(closed_trades) + 1)..Len(closed_trades') :
          closed_trades'[m].close_reason = "stop_loss" =>
              /\ closed_trades'[m].exit_bar_index = i
              /\ bar_low <= closed_trades'[m].close_price
              /\ closed_trades'[m].close_price <= bar_high]_vars


-----------------------------------------------------------------------------
\* The sizing in floating point.  calc_lots and calc_margin are sequences of
\* float multiplications and divisions, each rounded to the nearest
\* representable number.  Here a number is an integer count of 1 / FpUnit and
\* every product and quotient is rounded to the nearest count, ties to even,
\* in the order of the operations of the code.

FpUnit == 100

\* The nearest integer to a / b, ties to even (a >= 0, b > 0)
round_to_nearest(a, b) ==
    LET q == a \div b
        r == a % b
    IN  IF 2 * r > b \/ (2 * r = b /\ q % 2 = 1) THEN q + 1 ELSE q

\* x * y and x / y in floating point
fl_mul(x, y) == round_to_nearest(x * y, FpUnit)
fl_div(x, y) == round_to_nearest(x * FpUnit, y)

\* math.floor(x)
fl_floor(x) == (x \div FpUnit) * FpUnit

\* risk_manager.py:26-28
RiskManager_calc_margin(lots, price) ==
    fl_div(fl_mul(fl_mul(lots, contract_size * FpUnit), price),
           leverage * FpUnit)

\* risk_manager.py:30-34
RECURSIVE RiskManager_get_used_margin(_)
RiskManager_get_used_margin(poss) ==
    IF poss = <<>> THEN 0
    ELSE RiskManager_get_used_margin(Front(poss))
         + RiskManager_calc_margin(Last(poss).lots, Last(poss).open_price)

\* risk_manager.py:36-37
RiskManager_get_free_margin(eq, poss) == eq - RiskManager_get_used_margin(poss)

\* risk_manager.py:66-68: math.floor(lots / step) * step
normalize_to_step(lots, step) ==
    IF step > 0 THEN fl_mul(fl_floor(fl_div(lots, step)), step) ELSE lots

\* risk_manager.py:59-63
regime_factor(regime) ==
    IF regime = "LOW" THEN FpUnit \div 2
    ELSE IF regime = "HIGH" THEN (7 * FpUnit) \div 10
    ELSE FpUnit

\* risk_manager.py:41-85; cfg holds point_value, lot_step, min_lot, max_lot
RiskManager_calc_lots(cfg, stop_points, regime, eq, poss, entry_price) ==
    IF stop_points <= 0 THEN 0
    ELSE IF cfg.point_value <= 0 THEN 0
    ELSE LET risk_amount == fl_mul(eq, (risk_per_trade_num * FpUnit)
                                       \div risk_per_trade_den)
             sized == fl_div(risk_amount, fl_mul(stop_points, cfg.point_value))
             adjusted == IF regime = "NORMAL" THEN sized
                         ELSE fl_mul(sized, regime_factor(regime))
             normalized == normalize_to_step(adjusted, cfg.lot_step)
             clamped == Min(Max(normalized, cfg.min_lot), cfg.max_lot)
             free == RiskManager_get_free_margin(eq, poss)
             required == RiskManager_calc_margin(clamped, entry_price)
         IN  IF required > free
             THEN IF free <= 0 THEN 0
                  ELSE LET shrunk ==
                               normalize_to_step(
                                   fl_div(fl_mul(free, leverage * FpUnit),
                                          fl_mul(contract_size * FpUnit,
                                                 entry_price)),
                                   cfg.lot_step)
                       IN  IF shrunk < cfg.min_lot THEN 0 ELSE shrunk
             ELSE clamped

\* risk_manager.py:111-115: the margin check of can_open_trade
margin_check(poss, eq, new_lots, new_price) ==
    ~(RiskManager_get_free_margin(eq, poss)
          < RiskManager_calc_margin(new_lots, new_price))

\* Equities from 100.00 to 260.00 in steps of 0.50
SizingEquities == {k * (FpUnit \div 2) : k \in 200..520}
\* No position, or one long position of 1.00 lots opened at 101.00
SizingBooks ==
    {<<>>, <<Position(1, "BUY", 0, 101 * FpUnit, FpUnit, 94 * FpUnit, full_warmup)>>}
\* lot_step 0 (no normalisation), 0.01 and 1.00; min_lot 0.01, max_lot 2.00
SizingInstruments ==
    {[point_value |-> 7 * FpUnit, lot_step |-> step, min_lot |-> 1,
      max_lot |-> 2 * FpUnit] : step \in {0, 1, FpUnit}}
SizingStopPoints == {FpUnit, 7 * FpUnit}
SizingPrices == {99 * FpUnit, 101 * FpUnit}

SizingInit ==
    /\ pc = "sizing"
    /\ n_bars = full_warmup + MaxTradeBars
    /\ warmup_bars = full_warmup
    /\ max_positions = MaxPositionsCfg
    /\ i = warmup_bars + 1
    /\ bar_close = 100
    /\ bar_high = 100
    /\ bar_low = 100
    /\ today = 0
    /\ last_day = 0
    /\ kf_initialized = TRUE
    /\ kf_level = 100
    /\ kf_slope = 0
    /\ kf_err = 1
    /\ hurst_count = hurst_period
    /\ hurst = InitialHurst
    /\ vol_ret_count = vol_period
    /\ vol_percentile = InitialPercentile
    /\ engine_as_configured
    /\ equity \in SizingEquities
    /\ day_start_equity = equity
    /\ realized_pnl = 0
    /\ positions \in SizingBooks
    /\ closed_trades = <<>>
    /\ next_ticket = Len(positions) + 1
    /\ bars_since_close = InitialBarsSinceClose
    /\ entry_this_bar = FALSE
    /\ entry_signal = "NONE"
    /\ result = <<>>
    /\ called_before = FALSE
    /\ data = <<>>
    /\ earlier = NotCompared
    /\ call = NoCall
    /\ n_feeds = 0

\* backtester.py:203-207: calc_lots, then the margin check of can_open_trade
\* with the same equity, positions and price and the lots just returned
CallCalcLotsThenGate ==
    /\ pc = "sizing"
    /\ \E cfg \in SizingInstruments, stop_points \in SizingStopPoints,
          regime \in RiskRegimes, entry_price \in SizingPrices :
          LET lots == RiskManager_calc_lots(cfg, stop_points, regime, equity,
                                            positions, entry_price)
          IN  call' = [op |-> "calc_lots_then_gate",
                       args |-> [inst |-> cfg, stop_points |-> stop_points,
                                 regime |-> regime, entry_price |-> entry_price],
                       ret |-> [lots |-> lots,
                                required |-> RiskManager_calc_margin(lots,
                                                                     entry_price),
                                free |-> RiskManager_get_free_margin(equity,
                                                                     positions),
                                margin_ok |-> margin_check(positions, equity,
                                                           lots, entry_price)]]
    /\ UNCHANGED <<pc, n_bars, warmup_bars, max_positions, i, bar_close, bar_high,
                   bar_low, called_before, n_feeds, data, earlier>>
    /\ UNCHANGED engine_vars
    /\ UNCHANGED book_vars

SizingSpec == SizingInit /\ [][CallCalcLotsThenGate]_vars

\* C34: whenever calc_lots returns lots > 0, the margin required for those
\* lots at the entry price does not exceed the free margin, and the margin
\* check of can_open_trade on the same equity, positions, lots and price does
\* not reject.
C34_SizedLotsPassTheMarginGate ==
    (call.op = "calc_lots_then_gate" /\ call.ret.lots > 0) =>
        /\ call.ret.required <= call.ret.free
        /\ call.ret.margin_ok


\* C35: with close_cooldown >= 1, no position is opened on a bar on which a
\* position was closed by stop-loss or by signal: no entry_bar_index equals the
\* exit_bar_index of a trade closed with reason stop_loss or signal.
C35_NoEntryOnAClosingBar ==
    close_cooldown >= 1 =>
        \A m \in 1..Len(closed_trades) :
            closed_trades[m].close_reason \in {"stop_loss", "signal"} =>
                /\ \A k \in 1..Len(positions) :
                      positions[k].entry_bar_index # closed_trades[m].exit_bar_index
                /\ \A k \in 1..Len(closed_trades) :
                      closed_trades[k].entry_bar_index
                          # closed_trades[m].exit_bar_index

\* C35 witness: the entry step has run on a bar that closed a position by
\* stop-loss or by signal; the engine gave an entry signal that passed reversal
\* protection and the position count allowed an entry, and nothing was opened.
C35_Witness ==
    /\ pc = "trail"
    /\ close_cooldown >= 1
    /\ \E m \in 1..Len(closed_trades) :
          /\ closed_trades[m].close_reason \in {"stop_loss", "signal"}
          /\ closed_trades[m].exit_bar_index = i
    /\ reverse_protection(get_entry_signal(bar_close), positions) # "NONE"
    /\ Len(positions) < max_positions
    /\ entry_signal = "NONE"
    /\ ~entry_this_bar


-----------------------------------------------------------------------------
\* Two runs on series of different lengths that agree on the shorter one: the
\* run on the shorter series first, then a run on the series one bar longer
\* that reads the same bars again and one more.  A series longer than the
\* warmup is steady over its warmup, and the bar the longer series adds
\* repeats the close before it.

PrefixTradeBars == 2
LongerBy == 1

\* The lengths of the shorter series: shorter than the warmup, or the full
\* warmup and PrefixTradeBars trading bars
PrefixLengths == {2, full_warmup + PrefixTradeBars}

\* Variant of warmup_of: all the bars but the last two taken as warmup
warmup_of_all_but_two(n) == n - 2

\* backtester.py:70-71
warmup_of(n) == Min(full_warmup, n - 1)

PrefixInit ==
    /\ pc = "first_bar"
    /\ n_bars \in PrefixLengths
    /\ warmup_bars = warmup_of(n_bars)
    /\ max_positions = 1
    /\ i = 0
    /\ bar_close = 0
    /\ bar_high = 0
    /\ bar_low = 0
    /\ today = NoDay
    /\ last_day = NoDay
    /\ kf_initialized = FALSE
    /\ kf_level = 0
    /\ kf_slope = 0
    /\ kf_err = 1
    /\ hurst_count = 0
    /\ hurst = InitialHurst
    /\ vol_ret_count = 0
    /\ vol_percentile = InitialPercentile
    /\ day_start_equity = initial_equity
    /\ equity = initial_equity
    /\ realized_pnl = 0
    /\ positions = <<>>
    /\ closed_trades = <<>>
    /\ next_ticket = 1
    /\ bars_since_close = InitialBarsSinceClose
    /\ entry_this_bar = FALSE
    /\ entry_signal = "NONE"
    /\ result = <<>>
    /\ called_before = FALSE
    /\ data = <<>>
    /\ earlier = NoEarlierRun(TRUE)
    /\ call = NoCall
    /\ n_feeds = 0
    /\ engine_as_configured

\* The bar just read is the bar of the same index of the earlier run, if that
\* run read one: the same close, hence the same engine, and on a trading bar
\* of both runs the same high, low and date
agrees_with_earlier(index, trading) ==
    \A k \in 1..Len(earlier.data) :
        earlier.data[k].index = index =>
            LET e == earlier.data[k]
                b == bar_read(index, trading)
            IN  /\ e.close = b.close
                /\ e.engine = b.engine
                /\ (e.trading /\ trading) =>
                       (e.high = b.high /\ e.low = b.low /\ e.day = b.day)

\* A series longer than the warmup is steady over the warmup: the close is
\* that of bar 0 and the Hurst exponent, once there is one, stays what it is
steady_warmup ==
    n_bars > full_warmup =>
        (bar_close' = bar_close /\ (hurst \in Hursts => hurst' = hurst))

\* The bar the longer series adds has the close of the bar before it and no
\* range
flat_added_bar ==
    (earlier.n_bars > 0 /\ i >= earlier.n_bars) =>
        (bar_close' = bar_close /\ bar_high' = bar_close /\ bar_low' = bar_close)

\* backtester.py:74
PrefixFirstBar == FirstBar /\ agrees_with_earlier(0, FALSE)

\* backtester.py:75-76
PrefixWarmupBar == WarmupBar /\ steady_warmup /\ agrees_with_earlier(i, FALSE)

\* backtester.py:80-98
PrefixBeginBar == BeginBar /\ flat_added_bar /\ agrees_with_earlier(i, TRUE)

\* backtester.py:34-71: run has returned; run is called on a new Backtester
\* of the same configurations with the series one bar longer
RunLonger ==
    /\ pc = "done"
    /\ earlier.recording
    /\ earlier.n_bars = 0
    /\ pc' = "first_bar"
    /\ earlier' = [recording |-> TRUE, n_bars |-> n_bars,
                   warmup_bars |-> warmup_bars, data |-> data,
                   result |-> result, positions |-> positions,
                   closed_trades |-> closed_trades]
    /\ data' = <<>>
    /\ n_bars' = n_bars + LongerBy
    /\ warmup_bars' = warmup_of(n_bars')
    /\ locals_as_constructed
    /\ UNCHANGED <<called_before, max_positions>>

PrefixNext ==
    \/ PrefixFirstBar
    \/ PrefixWarmupBar
    \/ PrefixBeginBar
    \/ StopLossCheck
    \/ SignalExit
    \/ EntryDecision
    \/ TrailingStop
    \/ UpdateEquity
    \/ CloseRemaining
    \/ RunLonger

PrefixSpec == PrefixInit /\ [][PrefixNext]_vars

\* The run on the longer series has come to the end of the last bar of the
\* shorter one
Compared == earlier.n_bars > 0 /\ pc = "begin" /\ i = earlier.n_bars

\* The record of bar j in the records res of a run with warm bars of warmup
RecordAt(res, warm, j) ==
    IF j >= warm /\ j - warm + 1 <= Len(res)
    THEN res[j - warm + 1]
    ELSE [equity |-> 0, signal |-> "no record", date |-> NoDay]

RECURSIVE NotForced(_)
\* The trades of a trade log but those closed at the end of the data
NotForced(trades) ==
    IF trades = <<>> THEN <<>>
    ELSE IF Last(trades).close_reason = "end_of_data"
         THEN NotForced(Front(trades))
         ELSE Append(NotForced(Front(trades)), Last(trades))

\* Up to the last bar of the shorter series the two runs have the same
\* per-bar records, the same trades (but for the forced close of the shorter
\* run) and the same open positions with the same stops
SameUpToTheShorter ==
    /\ \A j \in 0..(earlier.n_bars - 1) :
          RecordAt(result, warmup_bars, j)
              = RecordAt(earlier.result, earlier.warmup_bars, j)
    /\ closed_trades = NotForced(earlier.closed_trades)
    /\ positions = earlier.positions

\* C36: two runs on bar sequences of different lengths that agree on bars
\* 0..k give the same per-bar record for every bar index <= k and open and
\* close the same positions on every bar <= k, the forced close at the end of
\* the data apart.
C36_RunsAgreeOnTheCommonBars == Compared => SameUpToTheShorter

\* C36 as amended: the same, for two sequences that are both longer than the
\* full warmup of max(hurst_period, vol_hist_period) + 50 bars.
C36_RunsAgreeOnTheCommonBarsPastTheWarmup ==
    (Compared /\ earlier.n_bars > full_warmup) => SameUpToTheShorter

\* C36 witness: the run on the longer series has come to the end of the
\* common bars, both series longer than the warmup; the shorter run opened a
\* position and closed it before its data ended.
C36_Witness ==
    /\ Compared
    /\ earlier.n_bars > full_warmup
    /\ Len(earlier.result) = PrefixTradeBars
    /\ NotForced(earlier.closed_trades) # <<>>

-----------------------------------------------------------------------------
(* The window loop of HurstExponent._calculate_hurst, step by step.  The
   locals of the call are kept in call.ret: n, prev_n, the window sizes for
   which segments were cut (tried), len(log_n) (num_points), whether the
   branch of line 95-97 was ever taken (skipped), and the value returned. *)

MaxHurstPeriod == 100     \* the capacity of the buffer of these calls

\* The estimates a regression can give, clamped to [0, 1]
\* (hurst_exponent.py:134, 139), in hundredths
HurstRange == Hursts \cup {0, InitialHurst, 100}

FirstWindow == 8          \* hurst_exponent.py:93

\* hurst_exponent.py:85: len(self._linearize())
data_len_of(returns, head, count) ==
    Len(HurstExponent_linearize(returns, head, count))

\* Variant of next_window: the size left as it is
next_window_unscaled(n) == n

\* hurst_exponent.py:118: int(n * 1.5)
next_window(n) == (n * 3) \div 2

\* hurst_exponent.py:94: the condition of the while loop
window_fits(n, data_len) == n <= data_len \div 2

\* The locals of _calculate_hurst before line 86
hurst_frame(data_len) ==
    [op |-> "_calculate_hurst",
     args |-> [data_len |-> data_len],
     ret |-> [n |-> 0, prev_n |-> 0, tried |-> <<>>, num_points |-> 0,
              skipped |-> FALSE, value |-> 0]]

\* A filled or part-filled buffer of MaxHurstPeriod returns, no bar in
\* progress, and _calculate_hurst about to be called
WindowInit ==
    /\ pc = "hurst_call"
    /\ n_bars = full_warmup + MaxTradeBars
    /\ warmup_bars = full_warmup
    /\ max_positions = MaxPositionsCfg
    /\ i = warmup_bars + 1
    /\ bar_close = 100
    /\ bar_high = 100
    /\ bar_low = 100
    /\ today = 0
    /\ last_day = 0
    /\ kf_initialized = TRUE
    /\ kf_level = 100
    /\ kf_slope = 0
    /\ kf_err = 1
    /\ hurst_count \in 0..MaxHurstPeriod
    /\ hurst \in IF hurst_count < HurstMinSamples THEN {InitialHurst}
                                                  ELSE HurstRange
    /\ vol_ret_count = vol_period
    /\ vol_percentile = InitialPercentile
    /\ kf_P = identity2
    /\ kf_Q = diagonal2(kf_process_noise)
    /\ kf_R = kf_observ_noise
    /\ hurst_returns = zeros(MaxHurstPeriod)
    /\ hurst_head = 0
    /\ vol_returns = zeros(vol_period)
    /\ vol_ret_head = 0
    /\ vol_history = zeros(vol_hist_period)
    /\ vol_head = 0
    /\ vol_count = 0
    /\ vol_current = 0
    /\ equity = initial_equity
    /\ day_start_equity = equity
    /\ realized_pnl = 0
    /\ positions = <<>>
    /\ closed_trades = <<>>
    /\ next_ticket = 1
    /\ bars_since_close = InitialBarsSinceClose
    /\ entry_this_bar = FALSE
    /\ entry_signal = "NONE"
    /\ result = <<>>
    /\ called_before = FALSE
    /\ data = <<>>
    /\ earlier = NotCompared
    /\ call = hurst_frame(data_len_of(hurst_returns, hurst_head, hurst_count))
    /\ n_feeds = 0

\* What a step of _calculate_hurst leaves alone: it reads the buffer and
\* writes its own locals only
hurst_call_frame ==
    /\ UNCHANGED <<n_bars, warmup_bars, max_positions, i, bar_close, bar_high,
                   bar_low, called_before, n_feeds, data, earlier>>
    /\ UNCHANGED engine_vars
    /\ UNCHANGED book_vars

\* hurst_exponent.py:84-93
EnterCalculateHurst ==
    /\ pc = "hurst_call"
    /\ IF call.args.data_len < HurstMinSamples
       THEN /\ pc' = "hurst_returned"
            /\ call' = [call EXCEPT !.ret.value = InitialHurst]
       ELSE /\ pc' = "hurst_loop"
            /\ call' = [call EXCEPT !.ret.prev_n = 0, !.ret.n = FirstWindow]
    /\ hurst_call_frame

\* hurst_exponent.py:94-118: one pass of the while loop.  Whether a segment
\* of the window has a positive R/S (valid_segs > 0) depends on the returns
\* and is left open.
TryWindow ==
    /\ pc = "hurst_loop"
    /\ window_fits(call.ret.n, call.args.data_len)
    /\ LET n == call.ret.n
           num_segments == call.args.data_len \div n
       IN  IF n = call.ret.prev_n
           THEN /\ call' = [call EXCEPT !.ret.n = n + 1,
                                        !.ret.skipped = TRUE]
                /\ pc' = pc
           ELSE IF num_segments < 1
           THEN /\ call' = [call EXCEPT !.ret.prev_n = n]
                /\ pc' = "hurst_regress"
           ELSE /\ \E valid_segs \in 0..1 :
                      call' = [call EXCEPT
                                  !.ret.prev_n = n,
                                  !.ret.tried = Append(@, n),
                                  !.ret.num_points = @ + valid_segs,
                                  !.ret.n = next_window(n)]
                /\ pc' = pc
    /\ hurst_call_frame

\* hurst_exponent.py:94: the condition of the loop is false
LeaveWindowLoop ==
    /\ pc = "hurst_loop"
    /\ ~window_fits(call.ret.n, call.args.data_len)
    /\ pc' = "hurst_regress"
    /\ UNCHANGED call
    /\ hurst_call_frame

\* hurst_exponent.py:120-139: the regression on the points gathered; its
\* value depends on the returns and is any estimate of the clamped range
ReturnHurst ==
    /\ pc = "hurst_regress"
    /\ IF call.ret.num_points < 2
       THEN call' = [call EXCEPT !.ret.value = InitialHurst]
       ELSE \E h \in HurstRange : call' = [call EXCEPT !.ret.value = h]
    /\ pc' = "hurst_returned"
    /\ hurst_call_frame

WindowNext ==
    \/ EnterCalculateHurst
    \/ TryWindow
    \/ LeaveWindowLoop
    \/ ReturnHurst

\* The interpreter goes on executing the call
WindowSpec == WindowInit /\ [][WindowNext]_vars /\ WF_vars(WindowNext)

\* The first window sizes, as int(n * 1.5) gives them from 8
FirstWindows == <<8, 12, 18, 27, 40>>

\* The window sizes tried so far are in strictly increasing order and begin
\* 8, 12, 18, 27, 40; each fits twice in the data; line 95-97 was not taken
WindowsInOrder ==
    LET tried == call.ret.tried
        data_len == call.args.data_len
    IN  /\ \A k \in 1..(Len(tried) - 1) : tried[k] < tried[k + 1]
        /\ \A k \in 1..Min(Len(tried), Len(FirstWindows)) :
              tried[k] = FirstWindows[k]
        /\ ~call.ret.skipped
        /\ \A k \in 1..Len(tried) :
              /\ tried[k] <= data_len \div 2
              /\ data_len \div tried[k] >= 2

\* With 20 to 23 samples the call returns 0.5 having tried the window 8 only
OneWindowOnShortData ==
    (pc = "hurst_returned" /\ call.args.data_len \in 20..23) =>
        /\ call.ret.tried = <<FirstWindow>>
        /\ call.ret.value = InitialHurst

\* C37: in _calculate_hurst, for every buffer length the window sizes tried
\* are strictly increasing (8, 12, 18, 27, 40, ...), the branch n == prev_n is
\* never taken, every window size is at most len // 2 and cuts at least 2
\* segments, and the loop terminates; with 20 to 23 samples only n = 8 is
\* tried and the exponent is 0.5.
C37_WindowsIncreaseAndTheLoopEnds ==
    /\ [](WindowsInOrder /\ OneWindowOnShortData)
    /\ <>(pc = "hurst_returned")

\* C37 witness: a call on 80 samples or more has returned an estimate other
\* than 0.5 after the windows 8, 12, 18, 27 and 40
C37_Witness ==
    /\ pc = "hurst_returned"
    /\ call.args.data_len >= 80
    /\ SubSeq(call.ret.tried, 1, Len(FirstWindows)) = FirstWindows
    /\ call.ret.value # InitialHurst

====
